---------------------------- MODULE Spec2Model ----------------------------
(***************************************************************************)
(* The real-time recording / transcription pipeline of                     *)
(* src/src/ui/transcription_widget.py: the single-flight start/stop        *)
(* lifecycle, the frame callback with its two sinks, the ingest worker     *)
(* (_audio_worker), the transcription worker (_transcription_worker) and   *)
(* the voice-activity test of src/src/services/audio_service.py.           *)
(*                                                                         *)
(* One action is one block the code runs under _recorder_lock, or one      *)
(* operation on a shared object outside the lock (an Event, the Queue, the *)
(* WAV file, a Thread).  Objects that a thread keeps a reference to after  *)
(* the module-level map entry is popped (the Queue, the two Events, the    *)
(* segment list, the WAV file) are stored per token beside the maps.       *)
(***************************************************************************)
EXTENDS Integers, Sequences, FiniteSets, TLC

(* ------------------------------ bounds -------------------------------- *)

\* Frames the capture transport delivers in one run.
MaxFrames == 2

\* Seconds the wall clock advances in one timed run.
MaxTime == 2

\* Half seconds of one cadence run, and the longest transcription call.
MaxHalfSeconds == 26
MaxApiHalfSeconds == 7

\* Whole minutes of audio and characters of transcript a cost estimate is asked for.
MaxMinutes == 3
MaxChars == 4

\* push calls made on one chunker, the samples of one call, and chunk_samples.
MaxPushes == 3
MaxPcmLen == 2
ChunkSamples == 2

\* register_for_session calls made in one run, and the session's capacity.
MaxCalls == 3
Capacity == 2

\* Capacity of the ingest queue in the model; the code's queue.Queue(maxsize=128)
\* behaves the same way at any positive capacity.
QueueMaxSize == 1

\* The microphone page: the capacity of a recorder queue (maxsize=128 in the
\* code) and the number of frames the transport delivers in a run.
MicQueueMax == 2
MicMaxFrames == 1

(* ------------------------- program constants -------------------------- *)

SAMPLE_RATE == 48000
SAMPLE_WIDTH == 2
VAD_RMS_THRESHOLD == 300
VAD_AMPLITUDE_GATE == 1100
\* VAD_SAMPLE_DENSITY = 0.12, kept as the exact fraction 12/100.
VAD_DENSITY_NUM == 12
VAD_DENSITY_DEN == 100
\* Size of the header the wave module writes before the PCM body.
WAV_HEADER_SIZE == 44
\* TRANSCRIPTION_CHUNK_DURATION = 3.0 s and time.sleep(0.5), in half seconds.
TRANSCRIPTION_CHUNK_DURATION == 6
POLL_INTERVAL == 1

None == 0
\* The uuid4 tokens of one run, in minting order: a run starts at most two
\* recordings (the two starts may race, or follow one another).
Tokens == {1, 2}
Sessions == {"ui1", "ui2"}
\* config.model_name of each UI session.
ModelOf(s) == IF s = "ui1" THEN "whisper-1" ELSE "gpt-4o-mini-transcribe"

\* Sample rates a capture transport may negotiate.
FrameRates == {16000, 44100, 48000}

\* The pcm arrays process_audio_frame hands to the callback: one sample of
\* silence, and two samples exactly at the amplitude gate.
Frames == {<<0>>, <<1100, 1100>>}

(* ------------------------- pure helpers ------------------------------- *)

RECURSIVE SumSq(_)
SumSq(pcm) == IF pcm = <<>> THEN 0 ELSE Head(pcm) * Head(pcm) + SumSq(Tail(pcm))

Abs(x) == IF x < 0 THEN -x ELSE x

RECURSIVE CountGE(_, _)
CountGE(pcm, gate) ==
    IF pcm = <<>> THEN 0
    ELSE (IF Abs(Head(pcm)) >= gate THEN 1 ELSE 0) + CountGE(Tail(pcm), gate)

RECURSIVE CountGT(_, _)
CountGT(pcm, gate) ==
    IF pcm = <<>> THEN 0
    ELSE (IF Abs(Head(pcm)) > gate THEN 1 ELSE 0) + CountGT(Tail(pcm), gate)

\* calculate_rms(pcm) >= threshold, i.e. sqrt(mean(x^2)) >= threshold, decided
\* exactly on integers; the empty array has RMS 0.0.
RmsAtLeast(pcm, threshold) ==
    IF Len(pcm) = 0 THEN 0 >= threshold
    ELSE SumSq(pcm) >= threshold * threshold * Len(pcm)

\* is_voiced_chunk(pcm_data, rms_threshold, min_density = num/den, amplitude_gate)
is_voiced_chunk(pcm, rms_threshold, num, den, amplitude_gate) ==
    IF Len(pcm) = 0 THEN FALSE
    ELSE IF ~RmsAtLeast(pcm, rms_threshold) THEN FALSE
    ELSE CountGE(pcm, amplitude_gate) * den >= num * Len(pcm)

\* len(pcm_array.tobytes()) for an int16 array
ByteLen(pcm) == SAMPLE_WIDTH * Len(pcm)

RECURSIVE Concatenate(_)
\* np.concatenate(buffer)
Concatenate(buffer) ==
    IF buffer = <<>> THEN <<>> ELSE Head(buffer) \o Concatenate(Tail(buffer))

\* Items of the ingest queue: (pcm_bytes, rms) or the None sentinel.
Item(pcm) == [none |-> FALSE, pcm |-> pcm]
Sentinel == [none |-> TRUE, pcm |-> <<>>]

(* ------------------------------ state --------------------------------- *)

VARIABLES
    active_token,               \* _active_token (None = 0)
    active_model,               \* _active_model
    minted,                     \* number of uuid4 tokens minted so far
    audio_queues,               \* keys of _audio_queues
    transcription_buffers,      \* _transcription_buffers: token -> list of arrays
    transcript_segments,        \* keys of _transcript_segments
    wav_writers,                \* keys of _wav_writers
    wav_paths,                  \* keys of _wav_paths
    bytes_written,              \* _bytes_written: token -> int
    last_rms,                   \* keys of _last_rms
    worker_threads,             \* keys of _worker_threads
    worker_stop_events,         \* keys of _worker_stop_events
    transcription_threads,      \* keys of _transcription_threads
    transcription_stop_events,  \* keys of _transcription_stop_events
    last_transcription_time,    \* keys of _last_transcription_time
    token_models,               \* _token_models: token -> model name
    queue,                      \* the Queue object made for each token: its items
    worker_stop,                \* the ingest Event made for each token: is_set()
    transcription_stop,         \* the transcription Event of each token: is_set()
    segments,                   \* the segment list object made for each token
    wav_file,                   \* the file at each token's wav_path
    ui,                         \* per UI session: position, locals, session_state
    cb,                         \* the frame callback: position and its token
    aw,                         \* _audio_worker thread of each token
    tw,                         \* _transcription_worker thread of each token
    fed,                        \* frames delivered so far
    accepted,                   \* per token: bytes put_nowait accepted
    sentinel_offered,           \* per token: stop reached the sentinel put
    now,                        \* the wall clock, in seconds since the run began
    cad,                        \* the transcription worker's loop against time.time()
    frame_rate,                 \* frame.sample_rate of the frames the transport delivers
    snap,                       \* a snapshot reader: position, token, the list it holds
    cost,                       \* two calls of _estimate_transcription_cost
    chunker,                    \* an AudioChunker and the threads that push to it
    registry,                   \* data/sessions.json, its lock, the caches, the callers
    lk,                         \* _recorder_lock: its holder, each thread's next statement
    fl,                         \* the sessions file: its inodes, their flocks, the writers
    mic                         \* mic_recorder_page: its globals, sessions, callbacks, workers

maps == <<audio_queues, transcription_buffers, transcript_segments, wav_writers,
          wav_paths, bytes_written, last_rms, worker_threads, worker_stop_events,
          transcription_threads, transcription_stop_events,
          last_transcription_time, token_models>>

objects == <<queue, worker_stop, transcription_stop, segments, wav_file>>

\* State outside the recording pipeline's own maps, objects and threads.
svc == <<cost, chunker, registry, lk, fl, mic>>
ext == <<now, cad, frame_rate, snap, svc>>

\* State of the recording pipeline.
pipeline == <<active_token, active_model, minted, maps, objects, ui, cb, aw, tw,
              fed, accepted, sentinel_offered>>

vars == <<pipeline, ext>>

\* Keys present in some module-level per-token map.
Keys(f) == DOMAIN f
InAnyMap(t) ==
    \/ t \in audio_queues \/ t \in Keys(transcription_buffers)
    \/ t \in transcript_segments \/ t \in wav_writers \/ t \in wav_paths
    \/ t \in Keys(bytes_written) \/ t \in last_rms \/ t \in worker_threads
    \/ t \in worker_stop_events \/ t \in transcription_threads
    \/ t \in transcription_stop_events \/ t \in last_transcription_time
    \/ t \in Keys(token_models)

\* An empty dict
EmptyMap == [k \in {} |-> 0]
\* dict.get(token, default)
Get(f, t, default) == IF t \in DOMAIN f THEN f[t] ELSE default
\* dict.pop(token, None) on a map kept as a function
Pop(f, t) == [k \in (DOMAIN f) \ {t} |-> f[k]]
\* dict[token] = v on a map kept as a function
Put(f, t, v) == [k \in (DOMAIN f) \cup {t} |-> IF k = t THEN v ELSE f[k]]

\* _last_transcription_time[token] = start_time: the loop of a recording
\* started at time 0, in half seconds.
CadStart == [pc |-> "test", time |-> 0, last_time |-> 0, drains |-> 0]

\* No snapshot is being taken.
SnapIdle == [pc |-> "idle", token |-> None, held |-> <<>>]

\* The dict _estimate_transcription_cost returns, before any call.
NoCost == [total |-> 0, input_cost |-> 0, output_cost |-> 0,
           audio_minutes |-> 0, char_count |-> 0, output_tokens |-> 0]

\* Two calls for one model, neither made yet.
CostInputs(model_name, a1, c1, a2, c2) ==
    [pc |-> "first", model_name |-> model_name,
     a1 |-> a1, c1 |-> c1, a2 |-> a2, c2 |-> c2,
     first |-> NoCost, second |-> NoCost]
CostStart == CostInputs("whisper-1", 0, 0, 0, 0)

\* The threads that call push on one chunker.
Pushers == {"p1", "p2"}

\* AudioChunker.__init__: self.buffer = np.array([]); no call in progress.
PusherIdle == [pc |-> "idle", pcm |-> <<>>, buffer |-> <<>>, chunk |-> <<>>]
ChunkerInit ==
    [buffer |-> <<>>, returned |-> <<>>, pushed |-> 0, calls |-> 0,
     th |-> [p \in Pushers |-> PusherIdle]]

\* The callers of register_for_session and the process each runs in; every
\* process has its own _sessions_cache.
Callers == {"u1", "u2", "u3"}
Procs == {"proc1", "proc2"}
ProcOf(u) == IF u = "u3" THEN "proc2" ELSE "proc1"
Names == {"", "amy", "bob", "cat"}

\* One session as data/sessions.json stores it, with nobody registered.
EmptySession == [registrants |-> <<>>, registered |-> 0]
\* _sessions_cache = None
ColdCache == [warm |-> FALSE, session |-> EmptySession]
CallerIdle == [pc |-> "idle", name |-> "", result |-> "none"]
RegistryInit ==
    [stored |-> EmptySession, lock |-> "free", calls |-> 0,
     cache |-> [p \in Procs |-> ColdCache],
     call |-> [u \in Callers |-> CallerIdle]]

\* The threads that take _recorder_lock: the UI thread (start, then stop), the
\* frame callback, and the two workers a start spawns.
LockThreads == {"ui", "cb", "aw", "tw"}

\* Nobody holds the lock; the UI thread is about to call _start_recording, a
\* frame may arrive, the workers do not exist yet.  0 stands for not running.
LockInit ==
    [holder |-> "none",
     pc |-> [th \in LockThreads |-> IF th = "ui" THEN 1 ELSE 0]]

\* The processes that update the sessions file, each once.
Writers == {"w1", "w2", "w3"}

\* The path names inode 1, which holds count 0 and is not locked; no writer
\* has called lock_file.  content and flock are indexed by inode.
FileLockInit ==
    [path |-> 1,
     content |-> <<0>>,
     flock |-> <<"none">>,
     w |-> [c \in Writers |-> [pc |-> "idle", fd |-> 0, data |-> 0]]]

\* The browser sessions on the microphone page and the tokens they mint.
MicSessions == {"tab1", "tab2"}
MicTokens == {1, 2}

\* st.session_state after _initialize_state, with the locals of a stop call
MicSessionInit ==
    [pc |-> "idle", mic_capture_active |-> FALSE, mic_capture_token |-> None,
     new_token |-> None, token |-> None, has_queue |-> FALSE,
     has_stop_event |-> FALSE, has_thread |-> FALSE]

\* The module globals of mic_recorder_page as imported: no current token, every
\* per-token map empty; no worker thread exists, no frame is in flight.
MicInit ==
    [current_token |-> None,
     minted |-> 0,
     recorder_queues |-> {},
     recorder_stop_events |-> {},
     recorder_threads |-> {},
     recorder_stats |-> {},
     active_recorders |-> {},
     wav_open |-> [t \in MicTokens |-> FALSE],
     queue |-> [t \in MicTokens |-> <<>>],
     stop_event |-> [t \in MicTokens |-> FALSE],
     bytes_written |-> [t \in MicTokens |-> 0],
     accepted |-> [t \in MicTokens |-> 0],
     ss |-> [s \in MicSessions |-> MicSessionInit],
     cb |-> [s \in MicSessions |-> [pc |-> "idle", token |-> None]],
     worker |-> [t \in MicTokens |-> [pc |-> "unstarted", item |-> <<>>,
                                       writer |-> FALSE]],
     fed |-> 0]

UiInit ==
    [pc |-> "idle", token |-> None,
     has_worker_stop |-> FALSE, has_transcription_stop |-> FALSE,
     has_queue |-> FALSE, has_worker_thread |-> FALSE,
     has_transcription_thread |-> FALSE,
     has_path |-> FALSE, has_segments |-> FALSE,
     state_token |-> None, state_active |-> FALSE, status |-> "",
     last_path |-> FALSE]

\* The part of a UI session that outlives a call: st.session_state.
Returned(u) ==
    [UiInit EXCEPT !.state_token = u.state_token,
                   !.state_active = u.state_active, !.status = u.status,
                   !.last_path = u.last_path]

PipelineInit ==
    /\ active_token = None
    /\ active_model = "None"
    /\ minted = 0
    /\ audio_queues = {}
    /\ transcription_buffers = EmptyMap
    /\ transcript_segments = {}
    /\ wav_writers = {}
    /\ wav_paths = {}
    /\ bytes_written = EmptyMap
    /\ last_rms = {}
    /\ worker_threads = {}
    /\ worker_stop_events = {}
    /\ transcription_threads = {}
    /\ transcription_stop_events = {}
    /\ last_transcription_time = {}
    /\ token_models = EmptyMap
    /\ queue = [t \in Tokens |-> <<>>]
    /\ worker_stop = [t \in Tokens |-> FALSE]
    /\ transcription_stop = [t \in Tokens |-> FALSE]
    /\ segments = [t \in Tokens |-> <<>>]
    /\ wav_file = [t \in Tokens |-> [exists |-> FALSE, open |-> FALSE, data |-> 0, rate |-> 0]]
    /\ ui = [s \in Sessions |-> UiInit]
    /\ cb = [pc |-> "idle", token |-> None]
    /\ aw = [t \in Tokens |-> [pc |-> "unstarted", item |-> <<>>, writer |-> FALSE]]
    /\ tw = [t \in Tokens |-> [pc |-> "unstarted", chunk |-> <<>>, drained |-> 0,
                              transcript |-> ""]]
    /\ fed = 0
    /\ accepted = [t \in Tokens |-> 0]
    /\ sentinel_offered = [t \in Tokens |-> FALSE]

\* The transport delivers frames at the rate the module assumes.
Init ==
    /\ PipelineInit
    /\ now = 0
    /\ cad = CadStart
    /\ frame_rate = SAMPLE_RATE
    /\ snap = SnapIdle
    /\ cost = CostStart
    /\ chunker = ChunkerInit
    /\ registry = RegistryInit
    /\ lk = LockInit
    /\ fl = FileLockInit
    /\ mic = MicInit


(* ----------------------- _start_recording ----------------------------- *)

\* Once a frame has been delivered, only the first UI session acts.
MayCall(s) == fed = 0 \/ s = "ui1"

\* A UI session invokes _start_recording(state, config).
StartCall(s) ==
    /\ ui[s].pc = "idle"
    /\ MayCall(s)
    /\ ui' = [ui EXCEPT ![s].pc = "start_check"]
    /\ UNCHANGED <<active_token, active_model, minted, maps, objects, cb, aw, tw,
                   fed, accepted, sentinel_offered>>
    /\ UNCHANGED ext

\* the guard left out: every start proceeds
StartGuardMissing == FALSE

\* with _recorder_lock: if _active_token is not None: return
StartGuardReturns == active_token # None

StartCheck(s) ==
    /\ ui[s].pc = "start_check"
    /\ ui' = [ui EXCEPT ![s].pc =
                 IF StartGuardReturns THEN "idle" ELSE "start_publish"]
    /\ UNCHANGED <<active_token, active_model, minted, maps, objects, cb, aw, tw,
                   fed, accepted, sentinel_offered>>
    /\ UNCHANGED ext

\* A run delivers frames to its first recording only, and starts a further
\* recording only while no frame has been delivered.
MayMint == minted + 1 \in Tokens /\ (minted >= 1 => fed = 0)

\* token = str(uuid.uuid4()); under the lock the token is published and its
\* map entries are created; both worker threads are started and entered in
\* _worker_threads / _transcription_threads (read only by the _stop_recording
\* of this UI session); state.set("active", True), state.set("token", token).
StartPublish(s) ==
    /\ ui[s].pc = "start_publish"
    /\ MayMint
    /\ LET token == minted + 1 IN
        /\ minted' = token
        /\ active_token' = token
        /\ active_model' = ModelOf(s)
        /\ audio_queues' = audio_queues \cup {token}
        /\ transcription_buffers' = Put(transcription_buffers, token, <<>>)
        /\ transcript_segments' = transcript_segments \cup {token}
        /\ wav_paths' = wav_paths \cup {token}
        /\ bytes_written' = Put(bytes_written, token, 0)
        /\ last_rms' = last_rms \cup {token}
        /\ last_transcription_time' = last_transcription_time \cup {token}
        /\ worker_stop_events' = worker_stop_events \cup {token}
        /\ transcription_stop_events' = transcription_stop_events \cup {token}
        /\ token_models' = Put(token_models, token, ModelOf(s))
        /\ worker_threads' = worker_threads \cup {token}
        /\ transcription_threads' = transcription_threads \cup {token}
        /\ aw' = [aw EXCEPT ![token].pc = "init"]
        /\ tw' = [tw EXCEPT ![token].pc = "init"]
        /\ ui' = [ui EXCEPT ![s] = [UiInit EXCEPT !.state_active = TRUE,
                                                  !.state_token = token,
                                                  !.status = "recording"]]
    /\ UNCHANGED <<wav_writers, objects, cb, fed, accepted, sentinel_offered>>
    /\ UNCHANGED ext

(* ------------------------ _stop_recording ----------------------------- *)

\* token = state.get("token"); if not token: return
StopNoToken(s) ==
    /\ ui[s].pc = "idle"
    /\ ui[s].state_token = None
    /\ UNCHANGED vars

StopCall(s) ==
    /\ ui[s].pc = "idle"
    /\ ui[s].state_token # None
    /\ ui' = [ui EXCEPT ![s].pc = "stop_clear", ![s].token = ui[s].state_token]
    /\ UNCHANGED <<active_token, active_model, minted, maps, objects, cb, aw, tw,
                   fed, accepted, sentinel_offered>>
    /\ UNCHANGED ext

\* a stop that leaves the marker as it finds it
MarkerKept(marker) == marker

\* _active_token = None
MarkerCleared(marker) == None

\* with _recorder_lock: _active_token = None; _active_model = None
\* with _recorder_lock: worker_stop, transcription_stop, audio_queue = ...get(token)
\* (the entries read are the stopped token's own, which only this call's
\* cleanup removes)
StopClear(s) ==
    /\ ui[s].pc = "stop_clear"
    /\ active_token' = MarkerCleared(active_token)
    /\ active_model' = "None"
    /\ ui' = [ui EXCEPT ![s].pc = "stop_signal_worker",
                 ![s].has_worker_stop = ui[s].token \in worker_stop_events,
                 ![s].has_transcription_stop =
                     ui[s].token \in transcription_stop_events,
                 ![s].has_queue = ui[s].token \in audio_queues]
    /\ UNCHANGED <<minted, maps, objects, cb, aw, tw, fed, accepted,
                   sentinel_offered>>
    /\ UNCHANGED ext

\* if worker_stop: worker_stop.set()
StopSignalWorker(s) ==
    /\ ui[s].pc = "stop_signal_worker"
    /\ worker_stop' = IF ui[s].has_worker_stop
                      THEN [worker_stop EXCEPT ![ui[s].token] = TRUE]
                      ELSE worker_stop
    /\ ui' = [ui EXCEPT ![s].pc =
                 IF ui[s].has_worker_stop /\ ui[s].has_queue
                 THEN "stop_put" ELSE "stop_signal_transcription"]
    /\ UNCHANGED <<active_token, active_model, minted, maps, queue,
                   transcription_stop, segments, wav_file, cb, aw, tw, fed,
                   accepted, sentinel_offered>>
    /\ UNCHANGED ext

\* audio_queue.put(None, timeout=1.0): the sentinel is enqueued when there is
\* room; on a full queue the put raises queue.Full after the timeout, which
\* the caller swallows.
PutTimesOut(q) == Len(q) >= QueueMaxSize

StopPutSentinel(s) ==
    /\ ui[s].pc = "stop_put"
    /\ queue' = IF PutTimesOut(queue[ui[s].token]) THEN queue
                ELSE [queue EXCEPT ![ui[s].token] = Append(@, Sentinel)]
    /\ sentinel_offered' = [sentinel_offered EXCEPT ![ui[s].token] = TRUE]
    /\ ui' = [ui EXCEPT ![s].pc = "stop_signal_transcription"]
    /\ UNCHANGED <<active_token, active_model, minted, maps, worker_stop,
                   transcription_stop, segments, wav_file, cb, aw, tw, fed,
                   accepted>>
    /\ UNCHANGED ext

\* the transcription stop event is never set
StopSignalTranscriptionSkipped(s) ==
    /\ ui[s].pc = "stop_signal_transcription"
    /\ ui' = [ui EXCEPT ![s].pc = "stop_join",
                 ![s].has_worker_thread = ui[s].token \in worker_threads,
                 ![s].has_transcription_thread =
                     ui[s].token \in transcription_threads]
    /\ UNCHANGED <<active_token, active_model, minted, maps, objects, cb, aw, tw,
                   fed, accepted, sentinel_offered>>
    /\ UNCHANGED ext

\* if transcription_stop: transcription_stop.set(); then, under the lock,
\* worker_thread, transcription_thread = ...get(token)
StopSignalTranscription(s) ==
    /\ ui[s].pc = "stop_signal_transcription"
    /\ transcription_stop' = IF ui[s].has_transcription_stop
                             THEN [transcription_stop EXCEPT ![ui[s].token] = TRUE]
                             ELSE transcription_stop
    /\ ui' = [ui EXCEPT ![s].pc = "stop_join",
                 ![s].has_worker_thread = ui[s].token \in worker_threads,
                 ![s].has_transcription_thread =
                     ui[s].token \in transcription_threads]
    /\ UNCHANGED <<active_token, active_model, minted, maps, queue, worker_stop,
                   segments, wav_file, cb, aw, tw, fed, accepted,
                   sentinel_offered>>
    /\ UNCHANGED ext

\* thread.is_alive()
IsAlive(thread) == thread.pc \notin {"unstarted", "done"}

\* thread.join(timeout=None) returns only once the thread has finished
JoinUnbounded(thread) == ~IsAlive(thread)

\* thread.join(timeout=3.0) returns once the thread has finished or the
\* timeout has elapsed, whichever comes first: it can always return.
JoinReturns(thread) == ~IsAlive(thread) \/ TRUE

\* if worker_thread and worker_thread.is_alive(): worker_thread.join(timeout=3.0)
\* if transcription_thread and transcription_thread.is_alive(): ...join(timeout=3.0)
\* with _recorder_lock: wav_path = _wav_paths.get(token);
\* segments = _transcript_segments.get(token, []): the list object itself
StopJoin(s) ==
    /\ ui[s].pc = "stop_join"
    /\ ui[s].has_worker_thread => JoinReturns(aw[ui[s].token])
    /\ ui[s].has_transcription_thread => JoinReturns(tw[ui[s].token])
    /\ ui' = [ui EXCEPT ![s].pc = "stop_finalize",
                 ![s].has_path = ui[s].token \in wav_paths,
                 ![s].has_segments = ui[s].token \in transcript_segments]
    /\ UNCHANGED <<active_token, active_model, minted, maps, objects, cb, aw, tw,
                   fed, accepted, sentinel_offered>>
    /\ UNCHANGED ext

\* wav_path.stat().st_size: the header is on disk once the first frames were
\* written or the writer was closed.
FileSize(f) ==
    IF ~f.exists THEN 0
    ELSE IF f.data > 0 \/ ~f.open THEN WAV_HEADER_SIZE + f.data
    ELSE 0

\* A stop that reports success for every WAV file that has audio in it.
StopStatusIgnoresTranscript(has_path, f, transcript) ==
    IF has_path /\ f.exists
    THEN IF FileSize(f) > WAV_HEADER_SIZE THEN "done" ELSE "too_short"
    ELSE "file_missing"

\* The terminal status _stop_recording stores.
StopStatus(has_path, f, transcript) ==
    IF has_path /\ f.exists
    THEN IF FileSize(f) > WAV_HEADER_SIZE /\ transcript # <<>>
         THEN "done" ELSE "too_short"
    ELSE "file_missing"

\* The list the reader of _stop_recording iterates: the token's segment list
\* as it is when it is iterated, since the reader holds the list object.
HeldSegments(has_segments, token) ==
    IF has_segments THEN segments[token] ELSE <<>>

\* final_transcript is built, outside the lock, from the segment list
\* obtained under it; state.set("active", False),
\* state.set("token", None); the status is chosen from the WAV file, and in
\* the success branch _save_transcript writes the transcript file and
\* state.set("last_path", str(transcript_path)).
StopFinalize(s) ==
    /\ ui[s].pc = "stop_finalize"
    /\ LET token == ui[s].token
           transcript == HeldSegments(ui[s].has_segments, token)
           status == StopStatus(ui[s].has_path, wav_file[token], transcript)
       IN ui' = [ui EXCEPT ![s].pc = "stop_cleanup",
                    ![s].state_active = FALSE,
                    ![s].state_token = None,
                    ![s].status = status,
                    ![s].last_path = (status = "done")]
    /\ UNCHANGED <<active_token, active_model, minted, maps, objects, cb, aw, tw,
                   fed, accepted, sentinel_offered>>
    /\ UNCHANGED ext

\* with _recorder_lock: every per-token map pops the token
StopCleanup(s) ==
    /\ ui[s].pc = "stop_cleanup"
    /\ LET token == ui[s].token IN
        /\ audio_queues' = audio_queues \ {token}
        /\ transcription_buffers' = Pop(transcription_buffers, token)
        /\ transcript_segments' = transcript_segments \ {token}
        /\ wav_paths' = wav_paths \ {token}
        /\ wav_writers' = wav_writers \ {token}
        /\ bytes_written' = Pop(bytes_written, token)
        /\ last_rms' = last_rms \ {token}
        /\ worker_threads' = worker_threads \ {token}
        /\ worker_stop_events' = worker_stop_events \ {token}
        /\ transcription_threads' = transcription_threads \ {token}
        /\ transcription_stop_events' = transcription_stop_events \ {token}
        /\ last_transcription_time' = last_transcription_time \ {token}
        /\ token_models' = Pop(token_models, token)
    /\ ui' = [ui EXCEPT ![s] = Returned(ui[s])]
    /\ UNCHANGED <<active_token, active_model, minted, objects, cb, aw, tw, fed,
                   accepted, sentinel_offered>>
    /\ UNCHANGED ext

(* --------------------------- audio_callback --------------------------- *)

\* A callback that keeps using the token of the last recording it saw.
CallbackTokenStale == IF active_token = None THEN minted ELSE active_token

\* with _recorder_lock: token = _active_token; if not token: return frame
CallbackToken == active_token

\* A run delivers frames to its first recording only, and only while the
\* second UI session has not acted.
MayFeed == fed < MaxFrames /\ minted <= 1 /\ ui["ui2"] = UiInit

CbRead ==
    /\ cb.pc = "idle"
    /\ MayFeed
    /\ fed' = fed + 1
    /\ cb' = IF CallbackToken = None
             THEN [pc |-> "idle", token |-> None]
             ELSE [pc |-> "push", token |-> CallbackToken]
    /\ UNCHANGED <<active_token, active_model, minted, maps, objects, ui, aw, tw,
                   accepted, sentinel_offered>>
    /\ UNCHANGED ext

\* A queue built without maxsize accepts every item.
PutNowaitUnbounded(q) == TRUE

\* audio_queue.put_nowait((pcm_bytes, rms)) raises queue.Full on a full queue
PutNowaitAccepts(q) == Len(q) < QueueMaxSize

\* pcm_array = process_audio_frame(frame); then, under the lock, the frame
\* goes to the ingest queue (dropped when full) and to the transcription buffer.
CbPush(pcm) ==
    /\ cb.pc = "push"
    /\ LET token == cb.token
           ok == token \in audio_queues /\ PutNowaitAccepts(queue[token])
       IN
        /\ queue' = IF ok THEN [queue EXCEPT ![token] = Append(@, Item(pcm))]
                    ELSE queue
        /\ accepted' = IF ok THEN [accepted EXCEPT ![token] = @ + ByteLen(pcm)]
                       ELSE accepted
        /\ transcription_buffers' =
              IF token \in DOMAIN transcription_buffers
              THEN [transcription_buffers EXCEPT ![token] = Append(@, pcm)]
              ELSE transcription_buffers
    /\ cb' = [pc |-> "idle", token |-> None]
    /\ UNCHANGED <<active_token, active_model, minted, audio_queues,
                   transcript_segments, wav_writers, wav_paths, bytes_written,
                   last_rms, worker_threads, worker_stop_events,
                   transcription_threads, transcription_stop_events,
                   last_transcription_time, token_models, worker_stop,
                   transcription_stop, segments, wav_file, ui, aw, tw, fed,
                   sentinel_offered>>
    /\ UNCHANGED ext

(* ---------------------------- _audio_worker --------------------------- *)

\* with _recorder_lock: audio_queue, wav_path, stop_event = ...get(token);
\* if not audio_queue or not wav_path or not stop_event: return
AwInit(t) ==
    /\ aw[t].pc = "init"
    /\ aw' = [aw EXCEPT ![t].pc =
                 IF t \in audio_queues /\ t \in wav_paths /\ t \in worker_stop_events
                 THEN "loop" ELSE "done"]
    /\ UNCHANGED <<active_token, active_model, minted, maps, objects, ui, cb, tw,
                   fed, accepted, sentinel_offered>>
    /\ UNCHANGED ext

\* while not stop_event.is_set(): ... finally: close
AwLoop(t) ==
    /\ aw[t].pc = "loop"
    /\ aw' = [aw EXCEPT ![t].pc = IF worker_stop[t] THEN "close" ELSE "get"]
    /\ UNCHANGED <<active_token, active_model, minted, maps, objects, ui, cb, tw,
                   fed, accepted, sentinel_offered>>
    /\ UNCHANGED ext

\* audio_queue.get() with no timeout returns only once an item is there.
GetBlocks(q) == q # <<>>

\* audio_queue.get(timeout=1.0) returns an item or raises queue.Empty after
\* the timeout: it always comes back.
GetReturns(q) == q # <<>> \/ TRUE

\* item = audio_queue.get(timeout=1.0); queue.Empty: continue; None: break
AwGet(t) ==
    /\ aw[t].pc = "get"
    /\ GetReturns(queue[t])
    /\ IF queue[t] = <<>>
       THEN /\ aw' = [aw EXCEPT ![t].pc = "loop"]
            /\ UNCHANGED queue
       ELSE /\ queue' = [queue EXCEPT ![t] = Tail(@)]
            /\ aw' = [aw EXCEPT ![t].pc =
                         IF Head(queue[t]).none THEN "close"
                         ELSE IF aw[t].writer THEN "write" ELSE "open",
                                ![t].item = Head(queue[t]).pcm]
    /\ UNCHANGED <<active_token, active_model, minted, maps, worker_stop,
                   transcription_stop, segments, wav_file, ui, cb, tw, fed,
                   accepted, sentinel_offered>>
    /\ UNCHANGED ext

\* wav_writer.setframerate(SAMPLE_RATE)
WriterFrameRate == SAMPLE_RATE

\* wav_writer = wave.open(str(wav_path), "wb"); setnchannels/setsampwidth/setframerate
AwOpen(t) ==
    /\ aw[t].pc = "open"
    /\ wav_file' = [wav_file EXCEPT ![t] = [exists |-> TRUE, open |-> TRUE,
                                            data |-> 0, rate |-> WriterFrameRate]]
    /\ aw' = [aw EXCEPT ![t].pc = "register", ![t].writer = TRUE]
    /\ UNCHANGED <<active_token, active_model, minted, maps, queue, worker_stop,
                   transcription_stop, segments, ui, cb, tw, fed, accepted,
                   sentinel_offered>>
    /\ UNCHANGED ext

\* wave.open raises (the directory is gone, the disk is full): the worker
\* leaves through finally with no writer and the thread ends.
AwOpenFails(t) ==
    /\ aw[t].pc = "open"
    /\ aw' = [aw EXCEPT ![t].pc = "done", ![t].item = <<>>]
    /\ UNCHANGED <<active_token, active_model, minted, maps, objects, ui, cb, tw,
                   fed, accepted, sentinel_offered>>
    /\ UNCHANGED ext

\* with _recorder_lock: _wav_writers[token] = wav_writer
AwRegister(t) ==
    /\ aw[t].pc = "register"
    /\ wav_writers' = wav_writers \cup {t}
    /\ aw' = [aw EXCEPT ![t].pc = "write"]
    /\ UNCHANGED <<active_token, active_model, minted, audio_queues,
                   transcription_buffers, transcript_segments, wav_paths,
                   bytes_written, last_rms, worker_threads, worker_stop_events,
                   transcription_threads, transcription_stop_events,
                   last_transcription_time, token_models, objects, ui, cb, tw,
                   fed, accepted, sentinel_offered>>
    /\ UNCHANGED ext

\* wav_writer.writeframes(pcm_bytes)
AwWrite(t) ==
    /\ aw[t].pc = "write"
    /\ wav_file' = [wav_file EXCEPT ![t].data = @ + ByteLen(aw[t].item)]
    /\ aw' = [aw EXCEPT ![t].pc = "count"]
    /\ UNCHANGED <<active_token, active_model, minted, maps, queue, worker_stop,
                   transcription_stop, segments, ui, cb, tw, fed, accepted,
                   sentinel_offered>>
    /\ UNCHANGED ext

\* writeframes raises: the worker leaves through finally
AwWriteFails(t) ==
    /\ aw[t].pc = "write"
    /\ aw' = [aw EXCEPT ![t].pc = "close", ![t].item = <<>>]
    /\ UNCHANGED <<active_token, active_model, minted, maps, objects, ui, cb, tw,
                   fed, accepted, sentinel_offered>>
    /\ UNCHANGED ext

\* A counter that adds the number of samples instead of the number of bytes.
CountedSamples(t, pcm) == Get(bytes_written, t, 0) + Len(pcm)

\* The new value of _bytes_written[token] after one written item.
CountedBytes(t, pcm) == Get(bytes_written, t, 0) + ByteLen(pcm)

\* with _recorder_lock: _bytes_written[token] = _bytes_written.get(token, 0)
\* + len(pcm_bytes); _last_rms[token] = rms
AwCount(t) ==
    /\ aw[t].pc = "count"
    /\ bytes_written' = Put(bytes_written, t, CountedBytes(t, aw[t].item))
    /\ last_rms' = last_rms \cup {t}
    /\ aw' = [aw EXCEPT ![t].pc = "loop", ![t].item = <<>>]
    /\ UNCHANGED <<active_token, active_model, minted, audio_queues,
                   transcription_buffers, transcript_segments, wav_writers,
                   wav_paths, worker_threads, worker_stop_events,
                   transcription_threads, transcription_stop_events,
                   last_transcription_time, token_models, objects, ui, cb, tw,
                   fed, accepted, sentinel_offered>>
    /\ UNCHANGED ext

\* finally: if wav_writer: wav_writer.close()
AwClose(t) ==
    /\ aw[t].pc = "close"
    /\ wav_file' = IF aw[t].writer THEN [wav_file EXCEPT ![t].open = FALSE]
                   ELSE wav_file
    /\ aw' = [aw EXCEPT ![t].pc = "done", ![t].item = <<>>]
    /\ UNCHANGED <<active_token, active_model, minted, maps, queue, worker_stop,
                   transcription_stop, segments, ui, cb, tw, fed, accepted,
                   sentinel_offered>>
    /\ UNCHANGED ext

(* ------------------------ _transcription_worker ----------------------- *)

\* client = OpenAI(); with _recorder_lock: stop_event = ...get(token);
\* if not stop_event: return
TwInit(t) ==
    /\ tw[t].pc = "init"
    /\ tw' = [tw EXCEPT ![t].pc =
                 IF t \in transcription_stop_events THEN "loop" ELSE "done"]
    /\ UNCHANGED <<active_token, active_model, minted, maps, objects, ui, cb, aw,
                   fed, accepted, sentinel_offered>>
    /\ UNCHANGED ext

\* A loop test that never sees the stop event.
StopNeverObserved(t) == FALSE

\* stop_event.is_set() at the loop test
StopObserved(t) == transcription_stop[t]

\* while not stop_event.is_set(): time.sleep(0.5); last_time is read under the
\* lock; elapsed = time.time() - last_time; if elapsed >= CHUNK_DURATION: ...
\* The clock is the environment's: the chunk is due or it is not.
TwLoop(t) ==
    /\ tw[t].pc = "loop"
    /\ \E due \in BOOLEAN :
          tw' = [tw EXCEPT ![t].pc = IF StopObserved(t) THEN "done"
                                     ELSE IF due THEN "drain" ELSE "loop"]
    /\ UNCHANGED <<active_token, active_model, minted, maps, objects, ui, cb, aw,
                   fed, accepted, sentinel_offered>>
    /\ UNCHANGED ext

\* A worker that sends every drained chunk to the API.
VadSkipped(chunk) == TRUE

\* is_voiced_chunk(audio_chunk, int(VAD_RMS_THRESHOLD),
\*                 min_density=VAD_SAMPLE_DENSITY, amplitude_gate=VAD_AMPLITUDE_GATE)
ChunkPassesVad(chunk) ==
    is_voiced_chunk(chunk, VAD_RMS_THRESHOLD, VAD_DENSITY_NUM, VAD_DENSITY_DEN,
                    VAD_AMPLITUDE_GATE)

\* A drain that leaves the drained arrays in the buffer.
BufferKept(buffer) == buffer

\* buffer.clear()
BufferCleared(buffer) == <<>>

\* with _recorder_lock: buffer = _transcription_buffers.get(token);
\* if not buffer: _last_transcription_time[token] = current_time; continue
\* audio_chunk = np.concatenate(buffer); buffer.clear();
\* _last_transcription_time[token] = current_time
TwDrain(t) ==
    /\ tw[t].pc = "drain"
    /\ LET buffer == Get(transcription_buffers, t, <<>>) IN
        /\ last_transcription_time' = last_transcription_time \cup {t}
        /\ IF buffer = <<>>
           THEN /\ tw' = [tw EXCEPT ![t].pc = "loop"]
                /\ UNCHANGED transcription_buffers
           ELSE /\ tw' = [tw EXCEPT ![t].pc = "vad",
                                    ![t].chunk = Concatenate(buffer),
                                    ![t].drained = @ + 1]
                /\ transcription_buffers' =
                      [transcription_buffers EXCEPT ![t] = BufferCleared(buffer)]
    /\ UNCHANGED <<active_token, active_model, minted, audio_queues,
                   transcript_segments, wav_writers, wav_paths, bytes_written,
                   last_rms, worker_threads, worker_stop_events,
                   transcription_threads, transcription_stop_events,
                   token_models, objects, ui, cb, aw, fed, accepted,
                   sentinel_offered>>
    /\ UNCHANGED ext

\* if not is_voiced_chunk(...): continue
TwVad(t) ==
    /\ tw[t].pc = "vad"
    /\ tw' = [tw EXCEPT ![t].pc = IF ChunkPassesVad(tw[t].chunk) THEN "api"
                                  ELSE "loop",
                        ![t].chunk = IF ChunkPassesVad(tw[t].chunk) THEN @
                                     ELSE <<>>]
    /\ UNCHANGED <<active_token, active_model, minted, maps, objects, ui, cb, aw,
                   fed, accepted, sentinel_offered>>
    /\ UNCHANGED ext

\* model_name is read under the lock; client.audio.transcriptions.create(...)
\* returns a text, returns a blank or an empty string, or raises.
ApiOutcomes == {" hello ", " ", "", "error"}

\* A worker that keeps the answer as the API gave it.
StripSkipped(transcript) == transcript

\* transcript.strip(), on the answers of ApiOutcomes
Strip(transcript) ==
    CASE transcript = " hello " -> "hello"
      [] transcript = " " -> ""
      [] OTHER -> transcript

\* if transcript and transcript.strip(): transcript_text = transcript.strip()
TwApi(t) ==
    /\ tw[t].pc = "api"
    /\ \E outcome \in ApiOutcomes :
          tw' = [tw EXCEPT ![t].pc =
                              IF outcome = "error" THEN "except"
                              ELSE IF outcome # "" /\ Strip(outcome) # ""
                                   THEN "append" ELSE "loop",
                           ![t].transcript =
                              IF outcome # "error" /\ outcome # ""
                                 /\ Strip(outcome) # ""
                              THEN Strip(outcome) ELSE "",
                           ![t].chunk = <<>>]
    /\ UNCHANGED <<active_token, active_model, minted, maps, objects, ui, cb, aw,
                   fed, accepted, sentinel_offered>>
    /\ UNCHANGED ext

\* An exception that ends the worker, as a try around the whole loop would.
ExceptAborts == "done"

\* The try/except sits inside the while loop: after the handler the worker
\* is back at the loop test.
ExceptResumes == "loop"

\* except Exception as exc: print(f"[Transcription] Error transcribing: {exc}")
TwExcept(t) ==
    /\ tw[t].pc = "except"
    /\ tw' = [tw EXCEPT ![t].pc = ExceptResumes]
    /\ UNCHANGED <<active_token, active_model, minted, maps, objects, ui, cb, aw,
                   fed, accepted, sentinel_offered>>
    /\ UNCHANGED ext

\* A list that takes new segments at its head.
PrependSegment(list, segment_data) == <<segment_data>> \o list

\* segments.append(segment_data)
AppendSegment(list, segment_data) == Append(list, segment_data)

\* time_str = datetime.now().strftime("%Y-%m-%d %H:%M:%S");
\* segment_data = {"time": time_str, "text": transcript_text}, where the text
\* is the API's answer for the chunk just drained;
\* with _recorder_lock: segments = _transcript_segments.get(token);
\* if segments is not None: segments.append(segment_data)
TwAppend(t) ==
    /\ tw[t].pc = "append"
    /\ segments' = IF t \in transcript_segments
                   THEN [segments EXCEPT ![t] =
                            AppendSegment(@, [time |-> now,
                                              text |-> tw[t].transcript,
                                              chunk |-> tw[t].drained])]
                   ELSE segments
    /\ tw' = [tw EXCEPT ![t].pc = "loop", ![t].transcript = ""]
    /\ UNCHANGED <<active_token, active_model, minted, maps, queue, worker_stop,
                   transcription_stop, wav_file, ui, cb, aw, fed, accepted,
                   sentinel_offered>>
    /\ UNCHANGED ext

(* --------------------------- specification ---------------------------- *)

StartStep(s) ==
    \/ StartCall(s)
    \/ StartCheck(s)
    \/ StartPublish(s)

StopStep(s) ==
    \/ StopCall(s)
    \/ StopClear(s)
    \/ StopSignalWorker(s)
    \/ StopPutSentinel(s)
    \/ StopSignalTranscription(s)
    \/ StopJoin(s)
    \/ StopFinalize(s)
    \/ StopCleanup(s)

AudioWorkerStep(t) ==
    \/ AwInit(t)
    \/ AwLoop(t)
    \/ AwGet(t)
    \/ AwOpen(t)
    \/ AwOpenFails(t)
    \/ AwRegister(t)
    \/ AwWrite(t)
    \/ AwWriteFails(t)
    \/ AwCount(t)
    \/ AwClose(t)

TranscriptionWorkerStep(t) ==
    \/ TwInit(t)
    \/ TwLoop(t)
    \/ TwDrain(t)
    \/ TwVad(t)
    \/ TwApi(t)
    \/ TwExcept(t)
    \/ TwAppend(t)

Next ==
    \/ \E s \in Sessions : StartStep(s)
    \/ \E s \in Sessions : StopNoToken(s)
    \/ \E s \in Sessions : StopStep(s)
    \/ CbRead
    \/ \E pcm \in Frames : CbPush(pcm)
    \/ \E t \in Tokens : AudioWorkerStep(t)
    \/ \E t \in Tokens : TranscriptionWorkerStep(t)

Spec == Init /\ [][Next]_vars

\* A thread that is running keeps running: each UI session inside
\* _stop_recording takes its next step.  Nothing is assumed of the workers,
\* the callback or the transcription API, which may stall for ever.
LiveSpec == Spec /\ \A s \in Sessions : WF_vars(StopStep(s))

(* ------------------- the pipeline with its wall clock ------------------ *)

\* The wall clock read by datetime.now() advances.  Only a worker that has a
\* transcript to append reads it, so it is advanced only at those moments:
\* any amount of time that passed earlier has passed by then.
Tick ==
    /\ now < MaxTime
    /\ \E t \in Tokens : tw[t].pc = "append"
    /\ now' = now + 1
    /\ UNCHANGED <<pipeline, cad, frame_rate, snap, svc>>

\* One UI session records while the clock runs.
TimedNext ==
    \/ StartStep("ui1")
    \/ StopNoToken("ui1")
    \/ StopStep("ui1")
    \/ CbRead
    \/ \E pcm \in Frames : CbPush(pcm)
    \/ \E t \in Tokens : AudioWorkerStep(t)
    \/ \E t \in Tokens : TranscriptionWorkerStep(t)
    \/ Tick

TimedSpec == Init /\ [][TimedNext]_vars

(* ------------- the transcription worker's loop against time ------------ *)

\* The loop of _transcription_worker for one token on a continuous frame
\* stream: the buffer is never empty when it is drained and the stop event
\* is not set.  Time is counted in half seconds.

\* while not stop_event.is_set(): time.sleep(0.5)
CadSleep ==
    /\ cad.pc = "test"
    /\ cad.time + POLL_INTERVAL <= MaxHalfSeconds
    /\ cad' = [cad EXCEPT !.pc = "poll", !.time = @ + POLL_INTERVAL]
    /\ UNCHANGED <<pipeline, now, frame_rate, snap, svc>>

\* last_time = _last_transcription_time.get(token, 0);
\* current_time = time.time(); elapsed = current_time - last_time;
\* if elapsed >= TRANSCRIPTION_CHUNK_DURATION: the buffer is drained and
\* _last_transcription_time[token] = current_time
CadPoll ==
    /\ cad.pc = "poll"
    /\ cad' = IF cad.time - cad.last_time >= TRANSCRIPTION_CHUNK_DURATION
              THEN [cad EXCEPT !.pc = "chunk", !.last_time = cad.time,
                               !.drains = @ + 1]
              ELSE [cad EXCEPT !.pc = "test"]
    /\ UNCHANGED <<pipeline, now, frame_rate, snap, svc>>

\* The drained chunk is tested and, when voiced, sent to the API: the worker
\* is back at its loop test after the time that took.
CadChunk ==
    /\ cad.pc = "chunk"
    /\ \E d \in 0..MaxApiHalfSeconds :
          /\ cad.time + d <= MaxHalfSeconds
          /\ cad' = [cad EXCEPT !.pc = "test", !.time = @ + d]
    /\ UNCHANGED <<pipeline, now, frame_rate, snap, svc>>

CadenceNext == CadSleep \/ CadPoll \/ CadChunk

CadenceSpec == Init /\ [][CadenceNext]_vars

(* ------------------ recording at a negotiated sample rate -------------- *)

\* The transport has negotiated some rate, which every frame reports.
RateInit ==
    /\ PipelineInit
    /\ now = 0
    /\ cad = CadStart
    /\ frame_rate \in FrameRates
    /\ snap = SnapIdle
    /\ cost = CostStart
    /\ chunker = ChunkerInit
    /\ registry = RegistryInit
    /\ lk = LockInit
    /\ fl = FileLockInit
    /\ mic = MicInit

\* One UI session records; the callback feeds the ingest worker.
RateNext ==
    \/ StartStep("ui1")
    \/ StopNoToken("ui1")
    \/ StopStep("ui1")
    \/ CbRead
    \/ \E pcm \in Frames : CbPush(pcm)
    \/ \E t \in Tokens : AudioWorkerStep(t)

RateSpec == RateInit /\ [][RateNext]_vars

\* The ingest worker is a running thread: it takes its next step, and a
\* writeframes or wave.open in progress returns or raises.  Nothing is
\* assumed of the UI session or of the callback.
IngestLiveSpec ==
    Init /\ [][RateNext]_vars /\ \A t \in Tokens : WF_vars(AudioWorkerStep(t))

(* ----------------------- the snapshot readers -------------------------- *)

\* list(_transcript_segments.get(token, [])): a new list with the elements
\* the token's list has now.
ListCopy(t) == IF t \in transcript_segments THEN segments[t] ELSE <<>>

\* _calculate_cost_snapshot(token, ...), called by the live fragment and by
\* the read-only feed, and _live_transcript_fragment itself:
\* with _recorder_lock: segments = list(_transcript_segments.get(token, []))
SnapshotRead(t) ==
    /\ snap.pc = "idle"
    /\ t \in 1..minted
    /\ snap' = [pc |-> "holding", token |-> t, held |-> ListCopy(t)]
    /\ UNCHANGED <<pipeline, now, cad, frame_rate, svc>>

\* The reader formats and renders the list it holds, and returns.
SnapshotRender ==
    /\ snap.pc = "holding"
    /\ snap' = SnapIdle
    /\ UNCHANGED <<pipeline, now, cad, frame_rate, svc>>

\* One UI session records and is transcribed while snapshots are taken.
SnapshotNext ==
    \/ StartStep("ui1")
    \/ StopNoToken("ui1")
    \/ StopStep("ui1")
    \/ CbRead
    \/ \E pcm \in Frames : CbPush(pcm)
    \/ \E t \in Tokens : TranscriptionWorkerStep(t)
    \/ \E t \in Tokens : SnapshotRead(t)
    \/ SnapshotRender

SnapshotSpec == Init /\ [][SnapshotNext]_vars

(* --------------------- _estimate_transcription_cost -------------------- *)

\* MODEL_COST_CONFIG. Money is in billionths of a dollar; output_tokens_per_char
\* 0.25 is the fraction tokens_per_char_num / tokens_per_char_den.
MODEL_COST_CONFIG ==
    [m \in {"whisper-1", "gpt-4o-mini-transcribe"} |->
        IF m = "whisper-1"
        THEN [input_cost_per_min |-> 6000000, output_cost_per_token |-> 0,
              tokens_per_char_num |-> 1, tokens_per_char_den |-> 4]
        ELSE [input_cost_per_min |-> 3000000, output_cost_per_token |-> 5000,
              tokens_per_char_num |-> 1, tokens_per_char_den |-> 4]]

ModelNames == {"whisper-1", "gpt-4o-mini-transcribe", "gpt-4o-transcribe"}

\* MODEL_COST_CONFIG.get(model_name, MODEL_COST_CONFIG["whisper-1"])
GetModelConfig(model_name) ==
    IF model_name \in DOMAIN MODEL_COST_CONFIG
    THEN MODEL_COST_CONFIG[model_name]
    ELSE MODEL_COST_CONFIG["whisper-1"]

\* A price list under which text beyond two characters is not charged.
EstimateOutputCapped(model_name, audio_minutes, char_count) ==
    LET config == GetModelConfig(model_name)
        input_cost == audio_minutes * config.input_cost_per_min
        output_tokens == char_count * config.tokens_per_char_num
        output_cost ==
            IF char_count > 2 THEN 0
            ELSE (output_tokens * config.output_cost_per_token)
                     \div config.tokens_per_char_den
    IN [total |-> input_cost + output_cost,
        input_cost |-> input_cost,
        output_cost |-> output_cost,
        audio_minutes |-> audio_minutes,
        char_count |-> char_count,
        output_tokens |-> output_tokens]

\* _estimate_transcription_cost(model_name, audio_minutes=, transcript_text=),
\* with char_count = len(transcript_text or ""). output_tokens is kept as the
\* numerator over tokens_per_char_den.
EstimateTranscriptionCost(model_name, audio_minutes, char_count) ==
    LET config == GetModelConfig(model_name)
        input_cost == audio_minutes * config.input_cost_per_min
        output_tokens == char_count * config.tokens_per_char_num
        output_cost == (output_tokens * config.output_cost_per_token)
                           \div config.tokens_per_char_den
    IN [total |-> input_cost + output_cost,
        input_cost |-> input_cost,
        output_cost |-> output_cost,
        audio_minutes |-> audio_minutes,
        char_count |-> char_count,
        output_tokens |-> output_tokens]

\* The first of the two calls returns.
EstimateFirst ==
    /\ cost.pc = "first"
    /\ cost' = [cost EXCEPT
                   !.pc = "second",
                   !.first = EstimateTranscriptionCost(cost.model_name,
                                                       cost.a1, cost.c1)]
    /\ UNCHANGED <<pipeline, now, cad, frame_rate, snap, chunker, registry, lk, fl, mic>>

\* The second call returns.
EstimateSecond ==
    /\ cost.pc = "second"
    /\ cost' = [cost EXCEPT
                   !.pc = "done",
                   !.second = EstimateTranscriptionCost(cost.model_name,
                                                        cost.a2, cost.c2)]
    /\ UNCHANGED <<pipeline, now, cad, frame_rate, snap, chunker, registry, lk, fl, mic>>

\* Any model name and any two pairs of non-negative inputs.
CostInit ==
    /\ PipelineInit
    /\ now = 0
    /\ cad = CadStart
    /\ frame_rate = SAMPLE_RATE
    /\ snap = SnapIdle
    /\ chunker = ChunkerInit
    /\ registry = RegistryInit
    /\ lk = LockInit
    /\ fl = FileLockInit
    /\ mic = MicInit
    /\ \E m \in ModelNames :
       \E a1 \in 0..MaxMinutes, a2 \in 0..MaxMinutes :
       \E c1 \in 0..MaxChars, c2 \in 0..MaxChars :
           cost = CostInputs(m, a1, c1, a2, c2)

CostNext == EstimateFirst \/ EstimateSecond

CostSpec == CostInit /\ [][CostNext]_vars

(* --------------------------- AudioChunker.push ------------------------- *)

\* a[:n] and a[n:] of a numpy array, for any length of a.
Take(a, n) == SubSeq(a, 1, IF Len(a) < n THEN Len(a) ELSE n)
Drop(a, n) == SubSeq(a, n + 1, Len(a))

\* The samples of one call: fresh ones, numbered in the order of the calls.
FreshSamples(n) == [i \in 1..n |-> chunker.pushed + i]

\* A thread calls push(pcm_data).
PushCall(p) ==
    /\ chunker.th[p].pc = "idle"
    /\ chunker.calls < MaxPushes
    /\ \E n \in 1..MaxPcmLen :
           chunker' = [chunker EXCEPT
                          !.calls = @ + 1,
                          !.pushed = @ + n,
                          !.th[p] = [PusherIdle EXCEPT
                                        !.pc = "load",
                                        !.pcm = FreshSamples(n)]]
    /\ UNCHANGED <<pipeline, now, cad, frame_rate, snap, cost, registry, lk, fl, mic>>

\* The right-hand side of the concatenation reads self.buffer.
PushLoad(p) ==
    /\ chunker.th[p].pc = "load"
    /\ chunker' = [chunker EXCEPT
                      !.th[p].pc = "store",
                      !.th[p].buffer = chunker.buffer]
    /\ UNCHANGED <<pipeline, now, cad, frame_rate, snap, cost, registry, lk, fl, mic>>

\* self.buffer = np.concatenate([<the buffer read>, pcm_data])
PushStore(p) ==
    /\ chunker.th[p].pc = "store"
    /\ chunker' = [chunker EXCEPT
                      !.buffer = chunker.th[p].buffer \o chunker.th[p].pcm,
                      !.th[p].pc = "test"]
    /\ UNCHANGED <<pipeline, now, cad, frame_rate, snap, cost, registry, lk, fl, mic>>

\* if len(self.buffer) >= self.chunk_samples, else return None
PushTest(p) ==
    /\ chunker.th[p].pc = "test"
    /\ chunker' = [chunker EXCEPT
                      !.th[p] = IF Len(chunker.buffer) >= ChunkSamples
                                THEN [@ EXCEPT !.pc = "chunk"]
                                ELSE PusherIdle]
    /\ UNCHANGED <<pipeline, now, cad, frame_rate, snap, cost, registry, lk, fl, mic>>

\* chunk = self.buffer[:self.chunk_samples]
PushChunk(p) ==
    /\ chunker.th[p].pc = "chunk"
    /\ chunker' = [chunker EXCEPT
                      !.th[p].pc = "remainder",
                      !.th[p].chunk = Take(chunker.buffer, ChunkSamples)]
    /\ UNCHANGED <<pipeline, now, cad, frame_rate, snap, cost, registry, lk, fl, mic>>

\* self.buffer = self.buffer[self.chunk_samples:]; return chunk
PushRemainder(p) ==
    /\ chunker.th[p].pc = "remainder"
    /\ chunker' = [chunker EXCEPT
                      !.buffer = Drop(chunker.buffer, ChunkSamples),
                      !.returned = Append(@, chunker.th[p].chunk),
                      !.th[p] = PusherIdle]
    /\ UNCHANGED <<pipeline, now, cad, frame_rate, snap, cost, registry, lk, fl, mic>>

PushStep(p) ==
    \/ PushCall(p)
    \/ PushLoad(p)
    \/ PushStore(p)
    \/ PushTest(p)
    \/ PushChunk(p)
    \/ PushRemainder(p)

ChunkerNext == \E p \in Pushers : PushStep(p)

ChunkerSpec == Init /\ [][ChunkerNext]_vars

\* How often sample x occurs in the array a.
Occurrences(a, x) == Cardinality({i \in 1..Len(a) : a[i] = x})

\* How often sample x occurs in the chunks returned so far.
RECURSIVE OccurrencesInChunks(_, _)
OccurrencesInChunks(chunks, x) ==
    IF chunks = <<>> THEN 0
    ELSE Occurrences(Head(chunks), x) + OccurrencesInChunks(Tail(chunks), x)

(* ------------------------- register_for_session ------------------------ *)

\* validate_name: an empty name is refused.
ValidName(name) == name # ""

\* Session.is_full
IsFull(session) == session.registered >= Capacity

\* The duplicate test of Session.can_register.
IsRegistered(session, name) ==
    \E i \in 1..Len(session.registrants) : session.registrants[i] = name

\* Session.can_register for a session that is upcoming and open. "full" and
\* "duplicate" stand for the two refusal messages, "ok" for (True, "").
CanRegister(session, name) ==
    IF IsFull(session) THEN "full"
    ELSE IF IsRegistered(session, name) THEN "duplicate"
    ELSE "ok"

\* get_all_sessions: the cached sessions, or the file's when the cache is None.
CachedSession(proc) ==
    IF registry.cache[proc].warm
    THEN registry.cache[proc].session
    ELSE registry.stored

\* register_for_session up to the lock: validate the name, get the session
\* (which fills a cold cache) and ask it whether the name can register.
RegCall(u) ==
    /\ registry.call[u].pc = "idle"
    /\ registry.calls < MaxCalls
    /\ \E name \in Names :
        LET proc == ProcOf(u)
            session == CachedSession(proc)
            answer == CanRegister(session, name)
        IN  IF ~ValidName(name)
            THEN registry' = [registry EXCEPT
                    !.calls = @ + 1,
                    !.call[u] = [pc |-> "idle", name |-> name,
                                 result |-> "empty_name"]]
            ELSE registry' = [registry EXCEPT
                    !.calls = @ + 1,
                    !.cache[proc] = [warm |-> TRUE, session |-> session],
                    !.call[u] = IF answer = "ok"
                                THEN [pc |-> "lock", name |-> name,
                                      result |-> "none"]
                                ELSE [pc |-> "idle", name |-> name,
                                      result |-> answer]]
    /\ UNCHANGED <<pipeline, now, cad, frame_rate, snap, cost, chunker, lk, fl, mic>>

\* with lock_file(SESSIONS_FILE): the lock is acquired.
RegLock(u) ==
    /\ registry.call[u].pc = "lock"
    /\ registry.lock = "free"
    /\ registry' = [registry EXCEPT !.lock = u, !.call[u].pc = "write"]
    /\ UNCHANGED <<pipeline, now, cad, frame_rate, snap, cost, chunker, lk, fl, mic>>

\* Under the lock: load the file, append the registrant, sync the count, save.
RegWrite(u) ==
    /\ registry.call[u].pc = "write"
    /\ LET registrants == Append(registry.stored.registrants,
                                 registry.call[u].name)
       IN registry' = [registry EXCEPT
              !.stored = [registrants |-> registrants,
                          registered |-> Len(registrants)],
              !.call[u].pc = "clear"]
    /\ UNCHANGED <<pipeline, now, cad, frame_rate, snap, cost, chunker, lk, fl, mic>>

\* _clear_cache(); return True with the success message, releasing the lock.
RegClear(u) ==
    /\ registry.call[u].pc = "clear"
    /\ registry' = [registry EXCEPT
           !.cache[ProcOf(u)] = ColdCache,
           !.lock = "free",
           !.call[u] = [@ EXCEPT !.pc = "idle", !.result = "success"]]
    /\ UNCHANGED <<pipeline, now, cad, frame_rate, snap, cost, chunker, lk, fl, mic>>

RegisterStep(u) ==
    \/ RegCall(u)
    \/ RegLock(u)
    \/ RegWrite(u)
    \/ RegClear(u)

RegistryNext == \E u \in Callers : RegisterStep(u)

RegistrySpec == Init /\ [][RegistryNext]_vars

(* ---------------------- the scope of _recorder_lock -------------------- *)

\* One statement of a thread: what it does, its line in
\* transcription_widget.py, and the statements that can follow it (0: the
\* thread returns).
S(op, line, next) == [op |-> op, line |-> line, next |-> next]

\* Operations that can block: file, network, join, Queue.put and Queue.get.
BlockingOps == {"mkdir", "wav_open", "wav_write", "wav_close",
                "save_transcript", "api", "join", "queue_put", "queue_get",
                "sleep"}

\* An ingest worker that writes the frames before it leaves the block in
\* which it registers the writer.
AwWritesInsideLock == << S("wav_write", 945, {12}), S("release", 943, {13}) >>

\* with _recorder_lock: _wav_writers[token] = wav_writer ends, then
\* wav_writer.writeframes(pcm_bytes).
AwRegisterThenWrite == << S("release", 943, {12}), S("wav_write", 945, {13}) >>

\* _audio_worker
AudioWorkerProgram ==
    << S("acquire", 908, {2}), S("mem", 909, {3}), S("release", 911, {4}),
       S("test", 913, {0, 5}),
       S("test", 921, {6, 16}),
       S("queue_get", 923, {5, 7}),
       S("test", 927, {8, 12, 16}),
       S("wav_open", 938, {9, 16}),
       S("acquire", 942, {10}), S("mem", 943, {11}),
       AwRegisterThenWrite[1], AwRegisterThenWrite[2],
       S("acquire", 948, {14}), S("mem", 949, {15}), S("release", 950, {5}),
       S("wav_close", 958, {0}) >>

\* _transcription_worker
TranscriptionWorkerProgram ==
    << S("acquire", 974, {2}), S("mem", 975, {3}), S("release", 975, {0, 4}),
       S("test", 981, {0, 5}),
       S("sleep", 982, {6}),
       S("acquire", 984, {7}), S("mem", 985, {8}), S("release", 985, {4, 9}),
       S("acquire", 991, {10}), S("mem", 992, {11}),
       S("release", 999, {4, 12}),
       S("vad", 1002, {4, 13}),
       S("acquire", 1015, {14}), S("mem", 1016, {15}),
       S("release", 1016, {16}),
       S("api", 1022, {4, 17}),
       S("acquire", 1037, {18}), S("mem", 1038, {19}),
       S("release", 1053, {4}) >>

\* _start_recording followed by _stop_recording, on the UI thread.
UiProgram ==
    << S("acquire", 733, {2}), S("mem", 734, {3}), S("release", 739, {0, 4}),
       S("mkdir", 745, {5}),
       S("acquire", 756, {6}), S("mem", 757, {7}), S("release", 768, {8}),
       S("spawn_aw", 771, {9}),
       S("acquire", 772, {10}), S("mem", 773, {11}), S("release", 773, {12}),
       S("spawn_tw", 780, {13}),
       S("acquire", 781, {14}), S("mem", 782, {15}), S("release", 782, {16}),
       S("acquire", 812, {17}), S("mem", 813, {18}), S("release", 814, {19}),
       S("acquire", 816, {20}), S("mem", 817, {21}), S("release", 819, {22}),
       S("event_set", 822, {23, 24}),
       S("queue_put", 825, {24}),
       S("event_set", 830, {25}),
       S("acquire", 832, {26}), S("mem", 833, {27}), S("release", 834, {28}),
       S("join", 837, {29}),
       S("join", 840, {30}),
       S("acquire", 842, {31}), S("mem", 843, {32}),
       S("release", 846, {33, 34}),
       S("save_transcript", 865, {34}),
       S("acquire", 885, {35}), S("mem", 886, {36}), S("release", 898, {0}) >>

\* audio_callback; put_nowait never blocks.
CallbackProgram ==
    << S("acquire", 389, {2}), S("mem", 390, {3}), S("release", 390, {0, 4}),
       S("acquire", 404, {5}), S("put_nowait", 408, {6}), S("mem", 415, {7}),
       S("release", 415, {0}) >>

Program(th) ==
    CASE th = "ui" -> UiProgram
      [] th = "cb" -> CallbackProgram
      [] th = "aw" -> AudioWorkerProgram
      [] th = "tw" -> TranscriptionWorkerProgram

\* The statement a running thread executes next.
Statement(th) == Program(th)[lk.pc[th]]

\* with _recorder_lock: the block is entered once the lock is free.
LkAcquire(th) ==
    /\ lk.pc[th] # 0
    /\ Statement(th).op = "acquire"
    /\ lk.holder = "none"
    /\ \E n \in Statement(th).next :
           lk' = [holder |-> th, pc |-> [lk.pc EXCEPT ![th] = n]]
    /\ UNCHANGED <<pipeline, now, cad, frame_rate, snap, cost, chunker, registry,
                   fl, mic>>

\* The with block is left, by its end, a continue or a return.
LkRelease(th) ==
    /\ lk.pc[th] # 0
    /\ Statement(th).op = "release"
    /\ \E n \in Statement(th).next :
           lk' = [holder |-> "none", pc |-> [lk.pc EXCEPT ![th] = n]]
    /\ UNCHANGED <<pipeline, now, cad, frame_rate, snap, cost, chunker, registry,
                   fl, mic>>

\* Any other statement; Thread.start() starts the worker at its first one.
LkRun(th) ==
    /\ lk.pc[th] # 0
    /\ Statement(th).op \notin {"acquire", "release"}
    /\ \E n \in Statement(th).next :
           lk' = [lk EXCEPT
                     !.pc = [x \in LockThreads |->
                                IF x = th THEN n
                                ELSE IF x = "aw" /\ Statement(th).op = "spawn_aw"
                                     THEN 1
                                ELSE IF x = "tw" /\ Statement(th).op = "spawn_tw"
                                     THEN 1
                                ELSE lk.pc[x]]]
    /\ UNCHANGED <<pipeline, now, cad, frame_rate, snap, cost, chunker, registry,
                   fl, mic>>

\* The transport delivers a frame: audio_callback is entered.
LkFrame ==
    /\ lk.pc["cb"] = 0
    /\ lk' = [lk EXCEPT !.pc["cb"] = 1]
    /\ UNCHANGED <<pipeline, now, cad, frame_rate, snap, cost, chunker, registry,
                   fl, mic>>

LockNext ==
    \/ \E th \in LockThreads : LkAcquire(th)
    \/ \E th \in LockThreads : LkRelease(th)
    \/ \E th \in LockThreads : LkRun(th)
    \/ LkFrame

LockSpec == Init /\ [][LockNext]_vars

(* ------------- storage_service: lock_file and save_json --------------- *)

\* The Unix branch of lock_file (sys.platform is not "win32"): the lock is a
\* flock on a descriptor opened on the path, so it belongs to the inode the
\* path named when the descriptor was opened.  Each writer runs
\*     with lock_file(path): data = load_json(path); data["count"] += 1;
\*                           save_json(path, data)
\* once.  I/O errors other than the lock timeout are left out.

\* lock_file is entered: os.path.exists(file_path) holds, the file is never
\* removed.
FlCall(c) ==
    /\ fl.w[c].pc = "idle"
    /\ fl' = [fl EXCEPT !.w[c].pc = "open"]
    /\ UNCHANGED <<pipeline, now, cad, frame_rate, snap, cost, chunker,
                   registry, lk, mic>>

\* lock_fd = open(file_path, "r+")
FlOpen(c) ==
    /\ fl.w[c].pc = "open"
    /\ fl' = [fl EXCEPT !.w[c].pc = "flock", !.w[c].fd = fl.path]
    /\ UNCHANGED <<pipeline, now, cad, frame_rate, snap, cost, chunker,
                   registry, lk, mic>>

\* fcntl.flock(lock_fd.fileno(), LOCK_EX | LOCK_NB) succeeds when no other
\* descriptor holds a lock on the same inode
FlFlock(c) ==
    /\ fl.w[c].pc = "flock"
    /\ fl.flock[fl.w[c].fd] = "none"
    /\ fl' = [fl EXCEPT !.w[c].pc = "load", !.flock[fl.w[c].fd] = c]
    /\ UNCHANGED <<pipeline, now, cad, frame_rate, snap, cost, chunker,
                   registry, lk, mic>>

\* the retry loop gives up after timeout seconds: TimeoutError; the finally
\* block unlocks a lock it does not hold and closes the descriptor
FlTimeout(c) ==
    /\ fl.w[c].pc = "flock"
    /\ fl.flock[fl.w[c].fd] # "none"
    /\ fl' = [fl EXCEPT !.w[c].pc = "failed", !.w[c].fd = 0]
    /\ UNCHANGED <<pipeline, now, cad, frame_rate, snap, cost, chunker,
                   registry, lk, mic>>

\* load_json(file_path) opens the path again and reads what it names now
FlLoad(c) ==
    /\ fl.w[c].pc = "load"
    /\ fl' = [fl EXCEPT !.w[c].pc = "save", !.w[c].data = fl.content[fl.path]]
    /\ UNCHANGED <<pipeline, now, cad, frame_rate, snap, cost, chunker,
                   registry, lk, mic>>

\* save_json: tempfile.mkstemp creates a new inode, the data is written to
\* it, and os.rename(temp_path, file_path) makes the path name it; the old
\* inode lives on in the descriptors opened on it.
FlSave(c) ==
    /\ fl.w[c].pc = "save"
    /\ fl' = [fl EXCEPT !.w[c].pc = "unlock",
                        !.content = Append(fl.content, fl.w[c].data + 1),
                        !.flock = Append(fl.flock, "none"),
                        !.path = Len(fl.content) + 1]
    /\ UNCHANGED <<pipeline, now, cad, frame_rate, snap, cost, chunker,
                   registry, lk, mic>>

\* finally: fcntl.flock(lock_fd.fileno(), LOCK_UN); lock_fd.close()
FlUnlock(c) ==
    /\ fl.w[c].pc = "unlock"
    /\ fl' = [fl EXCEPT !.w[c].pc = "done", !.w[c].fd = 0,
                        !.flock[fl.w[c].fd] = "none"]
    /\ UNCHANGED <<pipeline, now, cad, frame_rate, snap, cost, chunker,
                   registry, lk, mic>>

FileLockStep(c) ==
    \/ FlCall(c)
    \/ FlOpen(c)
    \/ FlFlock(c)
    \/ FlTimeout(c)
    \/ FlLoad(c)
    \/ FlSave(c)
    \/ FlUnlock(c)

FileLockNext == \E c \in Writers : FileLockStep(c)

FileLockSpec == Init /\ [][FileLockNext]_vars

\* the writers inside the with block of lock_file
InCriticalSection == {c \in Writers : fl.w[c].pc \in {"load", "save", "unlock"}}

\* the writers whose with block has completed
Updated == {c \in Writers : fl.w[c].pc = "done"}

(* ------------------------- mic_recorder_page -------------------------- *)

\* What changes in the other components while the microphone page runs.
MicOnly ==
    UNCHANGED <<pipeline, now, cad, frame_rate, snap, cost, chunker, registry,
                lk, fl>>

\* The frames the transport delivers to the page's callback.
MicFrames == {<<1100, 1100>>}

\* _start_recording: if st.session_state.mic_capture_active: return.  The
\* flag belongs to the browser session; _current_token is not consulted.
MicStartCall(s) ==
    /\ mic.ss[s].pc = "idle"
    /\ mic.minted + 1 \in MicTokens
    /\ mic' = [mic EXCEPT !.ss[s].pc =
                   IF mic.ss[s].mic_capture_active THEN "idle"
                   ELSE "start_register"]
    /\ MicOnly

\* token = str(uuid.uuid4()); under _recorder_lock the token's entries are
\* created; the worker thread is started.
MicStartRegister(s) ==
    /\ mic.ss[s].pc = "start_register"
    /\ mic.minted + 1 \in MicTokens
    /\ LET token == mic.minted + 1 IN
        mic' = [mic EXCEPT !.minted = token,
                           !.recorder_queues = @ \cup {token},
                           !.recorder_stop_events = @ \cup {token},
                           !.recorder_stats = @ \cup {token},
                           !.worker[token].pc = "init",
                           !.ss[s].new_token = token,
                           !.ss[s].pc = "start_thread"]
    /\ MicOnly

\* with _recorder_lock: _recorder_threads[token] = thread
MicStartThread(s) ==
    /\ mic.ss[s].pc = "start_thread"
    /\ mic' = [mic EXCEPT !.recorder_threads = @ \cup {mic.ss[s].new_token},
                           !.ss[s].pc = "start_publish"]
    /\ MicOnly

\* with _current_token_lock: _current_token = token; then the session state
\* is set (mic_capture_active = True, mic_capture_token = token).
MicStartPublish(s) ==
    /\ mic.ss[s].pc = "start_publish"
    /\ mic' = [mic EXCEPT !.current_token = mic.ss[s].new_token,
                           !.ss[s].mic_capture_active = TRUE,
                           !.ss[s].mic_capture_token = mic.ss[s].new_token,
                           !.ss[s].new_token = None,
                           !.ss[s].pc = "idle"]
    /\ MicOnly

\* _stop_recording: if not mic_capture_active: return; with
\* _current_token_lock: token = _current_token; if not token:
\* mic_capture_active = False; return
MicStopCall(s) ==
    /\ mic.ss[s].pc = "idle"
    /\ mic.ss[s].mic_capture_active
    /\ mic' = IF mic.current_token = None
              THEN [mic EXCEPT !.ss[s].mic_capture_active = FALSE]
              ELSE [mic EXCEPT !.ss[s].token = mic.current_token,
                               !.ss[s].pc = "stop_lookup"]
    /\ MicOnly

\* with _recorder_lock: audio_queue, stop_event, thread = ...get(token)
MicStopLookup(s) ==
    /\ mic.ss[s].pc = "stop_lookup"
    /\ LET token == mic.ss[s].token IN
        mic' = [mic EXCEPT !.ss[s].has_queue = token \in mic.recorder_queues,
                           !.ss[s].has_stop_event =
                               token \in mic.recorder_stop_events,
                           !.ss[s].has_thread = token \in mic.recorder_threads,
                           !.ss[s].pc = "stop_put"]
    /\ MicOnly

\* audio_queue.put_nowait(None); a full queue raises, which is swallowed
MicStopPut(s) ==
    /\ mic.ss[s].pc = "stop_put"
    /\ LET token == mic.ss[s].token IN
        mic' = [mic EXCEPT !.queue[token] =
                               IF mic.ss[s].has_queue /\ Len(@) < MicQueueMax
                               THEN Append(@, Sentinel) ELSE @,
                           !.ss[s].pc = "stop_set"]
    /\ MicOnly

\* if stop_event: stop_event.set()
MicStopSet(s) ==
    /\ mic.ss[s].pc = "stop_set"
    /\ LET token == mic.ss[s].token IN
        mic' = [mic EXCEPT !.stop_event[token] = @ \/ mic.ss[s].has_stop_event,
                           !.ss[s].pc = "stop_join"]
    /\ MicOnly

\* if thread and thread.is_alive(): thread.join(timeout=3.0)
MicStopJoin(s) ==
    /\ mic.ss[s].pc = "stop_join"
    /\ (mic.ss[s].has_thread => JoinReturns(mic.worker[mic.ss[s].token]))
    /\ mic' = [mic EXCEPT !.ss[s].pc = "stop_collect"]
    /\ MicOnly

\* with _recorder_lock: every map pops the token; if writer: writer.close()
MicStopCollect(s) ==
    /\ mic.ss[s].pc = "stop_collect"
    /\ LET token == mic.ss[s].token IN
        mic' = [mic EXCEPT !.active_recorders = @ \ {token},
                           !.recorder_stats = @ \ {token},
                           !.recorder_threads = @ \ {token},
                           !.recorder_stop_events = @ \ {token},
                           !.recorder_queues = @ \ {token},
                           !.wav_open[token] =
                               @ /\ token \notin mic.active_recorders,
                           !.ss[s].pc = "stop_finish"]
    /\ MicOnly

\* mic_capture_active = False; mic_capture_token = None; with
\* _current_token_lock: _current_token = None
MicStopFinish(s) ==
    /\ mic.ss[s].pc = "stop_finish"
    /\ mic' = [mic EXCEPT !.current_token = None,
                           !.ss[s] = MicSessionInit]
    /\ MicOnly

\* audio_callback of a session whose stream is playing (desired_playing_state
\* is mic_capture_active): with _current_token_lock: token = _current_token;
\* if not token: return frame
McRead(s) ==
    /\ mic.cb[s].pc = "idle"
    /\ mic.ss[s].mic_capture_active
    /\ mic.fed < MicMaxFrames
    /\ mic' = [mic EXCEPT !.fed = @ + 1,
                           !.cb[s] = IF mic.current_token = None
                                     THEN [pc |-> "idle", token |-> None]
                                     ELSE [pc |-> "push",
                                           token |-> mic.current_token]]
    /\ MicOnly

\* with _recorder_lock: q = _recorder_queues.get(token); if q is not None:
\* q.put_nowait((pcm_bytes, rms)), the frame is dropped when the queue is full
McPush(s, pcm) ==
    /\ mic.cb[s].pc = "push"
    /\ LET token == mic.cb[s].token
           ok == token \in mic.recorder_queues
                    /\ Len(mic.queue[token]) < MicQueueMax
       IN
        mic' = [mic EXCEPT !.queue[token] =
                               IF ok THEN Append(@, Item(pcm)) ELSE @,
                           !.accepted[token] =
                               IF ok THEN @ + ByteLen(pcm) ELSE @,
                           !.cb[s] = [pc |-> "idle", token |-> None]]
    /\ MicOnly

\* _recorder_worker: with _recorder_lock: audio_queue, path, stats,
\* stop_event = ...get(token); if any is None: return
MwInit(t) ==
    /\ mic.worker[t].pc = "init"
    /\ mic' = [mic EXCEPT !.worker[t].pc =
                   IF /\ t \in mic.recorder_queues
                      /\ t \in mic.recorder_stats
                      /\ t \in mic.recorder_stop_events
                   THEN "loop" ELSE "done"]
    /\ MicOnly

\* while not stop_event.is_set():
MwLoop(t) ==
    /\ mic.worker[t].pc = "loop"
    /\ mic' = [mic EXCEPT !.worker[t].pc =
                   IF mic.stop_event[t] THEN "close" ELSE "get"]
    /\ MicOnly

\* item = audio_queue.get(timeout=1.0); except queue.Empty: continue;
\* if item is None: break; if not pcm_bytes: continue
MwGet(t) ==
    /\ mic.worker[t].pc = "get"
    /\ mic' =
         IF mic.queue[t] = <<>>
         THEN [mic EXCEPT !.worker[t].pc = "loop"]
         ELSE LET item == Head(mic.queue[t]) IN
              [mic EXCEPT !.queue[t] = Tail(@),
                          !.worker[t].item =
                              IF item.none THEN <<>> ELSE item.pcm,
                          !.worker[t].pc =
                              IF item.none THEN "close"
                              ELSE IF item.pcm = <<>> THEN "loop"
                              ELSE IF mic.worker[t].writer THEN "write"
                              ELSE "open"]
    /\ MicOnly

\* if writer is None: writer = wave.open(str(path), "wb"); with
\* _recorder_lock: _active_recorders[token] = writer
MwOpen(t) ==
    /\ mic.worker[t].pc = "open"
    /\ mic' = [mic EXCEPT !.worker[t].writer = TRUE,
                           !.worker[t].pc = "write",
                           !.wav_open[t] = TRUE,
                           !.active_recorders = @ \cup {t}]
    /\ MicOnly

\* writer.writeframes(pcm_bytes); on a writer that _stop_recording has
\* closed it raises: except Exception: break
MwWrite(t) ==
    /\ mic.worker[t].pc = "write"
    /\ mic' = [mic EXCEPT !.worker[t].pc =
                   IF mic.wav_open[t] THEN "count" ELSE "close"]
    /\ MicOnly

\* with _recorder_lock: stats.bytes_written += len(pcm_bytes)
MwCount(t) ==
    /\ mic.worker[t].pc = "count"
    /\ mic' = [mic EXCEPT !.bytes_written[t] = @ + ByteLen(mic.worker[t].item),
                           !.worker[t].item = <<>>,
                           !.worker[t].pc = "loop"]
    /\ MicOnly

\* if writer: writer.close(); with _recorder_lock: the worker pops the
\* token from _active_recorders, _recorder_threads, _recorder_stop_events
\* and _recorder_queues
MwClose(t) ==
    /\ mic.worker[t].pc = "close"
    /\ mic' = [mic EXCEPT !.wav_open[t] = FALSE,
                           !.active_recorders = @ \ {t},
                           !.recorder_threads = @ \ {t},
                           !.recorder_stop_events = @ \ {t},
                           !.recorder_queues = @ \ {t},
                           !.worker[t].pc = "done"]
    /\ MicOnly

MicSessionStep(s) ==
    \/ MicStartCall(s)
    \/ MicStartRegister(s)
    \/ MicStartThread(s)
    \/ MicStartPublish(s)
    \/ MicStopCall(s)
    \/ MicStopLookup(s)
    \/ MicStopPut(s)
    \/ MicStopSet(s)
    \/ MicStopJoin(s)
    \/ MicStopCollect(s)
    \/ MicStopFinish(s)

MicCallbackStep(s) ==
    \/ McRead(s)
    \/ \E pcm \in MicFrames : McPush(s, pcm)

MicWorkerStep(t) ==
    \/ MwInit(t)
    \/ MwLoop(t)
    \/ MwGet(t)
    \/ MwOpen(t)
    \/ MwWrite(t)
    \/ MwCount(t)
    \/ MwClose(t)

MicNext ==
    \/ \E s \in MicSessions : MicSessionStep(s)
    \/ \E s \in MicSessions : MicCallbackStep(s)
    \/ \E t \in MicTokens : MicWorkerStep(t)

MicSpec == Init /\ [][MicNext]_vars

(* ------------------------------ claims -------------------------------- *)

Minted == 1..minted

\* _stop_recording(token) has set the ingest stop event and has returned.
StopReturned(t) == worker_stop[t] /\ \A s \in Sessions : ui[s].token # t

InStop(s) ==
    ui[s].pc \in {"stop_clear", "stop_signal_worker", "stop_put",
                  "stop_signal_transcription", "stop_join", "stop_finalize",
                  "stop_cleanup"}

\* C1: single-flight.  While a token is active no step replaces it by another
\* token: the active token only ever gives way to None.
C1_SingleFlight ==
    [][active_token # None => active_token' \in {active_token, None}]_vars

\* C2: a _start_recording whose guard finds a token active is a no-op.  The
\* step that answers the call returns the session to idle with its locals and
\* session_state as they were, mints nothing, starts no thread and leaves the
\* active token, the active model, every per-token map and every per-token
\* object unchanged.
C2_StartWhileActiveIsNoOp ==
    [][\A s \in Sessions :
          (ui[s].pc = "start_check" /\ active_token # None
             /\ ui'[s].pc # "start_check")
          => /\ ui'[s] = [ui[s] EXCEPT !.pc = "idle"]
             /\ UNCHANGED <<active_token, active_model, minted, maps, objects,
                            aw, tw>>]_vars

\* C2 witness: a start call is being answered while a token is active.
C2_Witness ==
    \E s \in Sessions : ui[s].pc = "start_check" /\ active_token # None

\* C3: the order of the steps of _stop_recording(token).  Once a stop signal
\* of the token is set the marker no longer names the token; the joins are
\* reached only with both stop events set and the sentinel offered; the
\* per-token entries are all still there until the cleanup step, and a token
\* whose entries are gone has had its stop signals issued.
C3_StopOrder ==
    /\ \A t \in Tokens :
          (worker_stop[t] \/ transcription_stop[t] \/ sentinel_offered[t])
          => active_token # t
    /\ \A s \in Sessions :
          LET t == ui[s].token IN
          /\ ui[s].pc \in {"stop_join", "stop_finalize", "stop_cleanup"}
             => worker_stop[t] /\ sentinel_offered[t] /\ transcription_stop[t]
          /\ InStop(s)
             => /\ t \in audio_queues /\ t \in DOMAIN transcription_buffers
                /\ t \in transcript_segments /\ t \in wav_paths
                /\ t \in DOMAIN bytes_written /\ t \in worker_stop_events
                /\ t \in transcription_stop_events /\ t \in worker_threads
                /\ t \in transcription_threads /\ t \in DOMAIN token_models
    /\ \A t \in Minted :
          t \notin worker_stop_events
          => worker_stop[t] /\ sentinel_offered[t] /\ transcription_stop[t]

\* C3 witness: a stop has run to its end and the token's entries are removed.
C3_Witness ==
    \E t \in Minted : t \notin worker_stop_events /\ StopReturned(t)

TerminalStatuses == {"done", "too_short", "file_missing"}

C5_NothingOutlivesToken ==
    \A t \in Minted :
        StopReturned(t) => ~InAnyMap(t) /\ ~wav_file[t].open

\* C6: the frame callback never waits for queue space.  No ingest queue ever
\* holds more than its capacity, and a callback that is about to push can
\* always take that step, whatever the queue holds.
C6_CallbackNeverBlocks ==
    /\ \A t \in Tokens : Len(queue[t]) <= QueueMaxSize
    /\ cb.pc = "push" => ENABLED (\E pcm \in Frames : CbPush(pcm))

\* C6 witness: the callback is about to push to a full queue.
C6_Witness ==
    /\ cb.pc = "push"
    /\ cb.token \in audio_queues
    /\ Len(queue[cb.token]) = QueueMaxSize

\* C7 as stated: in every state bytes_written equals the bytes written to the
\* WAV file and does not exceed the bytes the callback enqueued.
C7_BytesWrittenEqualsFile ==
    \A t \in DOMAIN bytes_written :
        bytes_written[t] = wav_file[t].data /\ wav_file[t].data <= accepted[t]

\* C7 amended: bytes_written never exceeds the bytes written to the WAV file,
\* which never exceed the bytes the callback enqueued (so a dropped frame
\* never counts); until stop removes the token's entries the counter equals
\* the bytes written, except between writeframes and the counter update,
\* where it is behind by the one item just written.
C7_BytesWrittenBehindFile ==
    \A t \in DOMAIN bytes_written :
        /\ bytes_written[t] <= wav_file[t].data
        /\ wav_file[t].data <= accepted[t]
        /\ t \in wav_paths
           => bytes_written[t] + (IF aw[t].pc = "count" THEN ByteLen(aw[t].item)
                                  ELSE 0) = wav_file[t].data

\* C7 witness: an item has been written and counted while a second frame was
\* delivered.
C7_Witness ==
    \E t \in DOMAIN bytes_written :
        /\ fed >= 2
        /\ bytes_written[t] > 0
        /\ bytes_written[t] = wav_file[t].data
        /\ t \in wav_paths

\* C8: with no token active a delivered frame is discarded.  A callback
\* invocation that reads no active token ends there and changes no queue, no
\* buffer, no counter and no segment list; an invocation goes on to push only
\* with the token it read as active.
C8_NoTokenFrameDiscarded ==
    [][(cb.pc = "idle" /\ fed' # fed)
         => /\ active_token = None
               => /\ cb' = cb
                  /\ UNCHANGED <<maps, objects, accepted>>
            /\ cb'.pc = "push" => cb'.token = active_token /\ active_token # None
      ]_vars

\* C8 witness: one frame was delivered while no token was active, after the
\* recording's marker was cleared, and it reached neither sink.
C8_Witness ==
    /\ fed = 1
    /\ minted = 1
    /\ cb.pc = "idle"
    /\ accepted[1] = 0
    /\ active_token = None
    /\ 1 \in DOMAIN transcription_buffers
    /\ transcription_buffers[1] = <<>>
    /\ tw[1].pc \in {"unstarted", "init"}

\* The voiced test of C9: the chunk is not empty, its RMS is at or above
\* VAD_RMS_THRESHOLD and the share of its samples at or above
\* VAD_AMPLITUDE_GATE is at or above VAD_SAMPLE_DENSITY.
C9_Voiced(chunk) ==
    /\ Len(chunk) > 0
    /\ SumSq(chunk) >= VAD_RMS_THRESHOLD * VAD_RMS_THRESHOLD * Len(chunk)
    /\ Cardinality({i \in 1..Len(chunk) : Abs(chunk[i]) >= VAD_AMPLITUDE_GATE})
         * VAD_DENSITY_DEN >= VAD_DENSITY_NUM * Len(chunk)

C10_Reference(pcm, rms_threshold, num, den, amplitude_gate) ==
    /\ Len(pcm) > 0
    /\ RmsAtLeast(pcm, rms_threshold)
    /\ CountGT(pcm, amplitude_gate) * den >= num * Len(pcm)

\* C10: is_voiced_chunk agrees with the reference definition (non-empty, RMS
\* at or above the threshold, at least min_density of the samples exceeding
\* amplitude_gate in absolute amplitude) on every chunk it is applied to.
C10_VoicedMatchesReference ==
    \A t \in Tokens :
        tw[t].pc = "vad"
        => (is_voiced_chunk(tw[t].chunk, VAD_RMS_THRESHOLD, VAD_DENSITY_NUM,
                            VAD_DENSITY_DEN, VAD_AMPLITUDE_GATE)
            <=> C10_Reference(tw[t].chunk, VAD_RMS_THRESHOLD, VAD_DENSITY_NUM,
                              VAD_DENSITY_DEN, VAD_AMPLITUDE_GATE))

\* C11: a transcription API error on one chunk does not stop the worker.
\* The step on which the call raises and the handler's step change no
\* segment list and put nothing back into a transcription buffer, the failed
\* chunk is dropped, the handler returns the worker to its loop test, and a
\* voiced chunk at the VAD test goes to the API whatever happened before.
C11_ApiErrorSkipsChunk ==
    [][\A t \in Tokens :
          /\ (tw[t].pc = "api" /\ tw'[t].pc = "except")
             => /\ tw'[t].chunk = <<>>
                /\ UNCHANGED <<segments, transcription_buffers>>
          /\ (tw[t].pc = "except" /\ tw'[t] # tw[t])
             => /\ tw'[t] = [tw[t] EXCEPT !.pc = "loop"]
                /\ tw[t].chunk = <<>>
                /\ UNCHANGED <<segments, transcription_buffers>>
          /\ (tw[t].pc = "vad" /\ tw'[t] # tw[t] /\ C9_Voiced(tw[t].chunk))
             => tw'[t] = [tw[t] EXCEPT !.pc = "api"]
      ]_vars

\* C11 witness: the call for the first chunk has raised while the next frame
\* is already waiting in the token's transcription buffer.
C11_Witness ==
    \E t \in DOMAIN transcription_buffers :
        /\ tw[t].pc = "except"
        /\ transcription_buffers[t] = << <<1100, 1100>> >>

\* C12: the segments of one token are in non-decreasing timestamp order and
\* in the order in which their chunks were drained.
C12_SegmentsInOrder ==
    \A t \in Tokens :
        \A i, j \in 1..Len(segments[t]) :
            i < j => /\ segments[t][i].time <= segments[t][j].time
                     /\ segments[t][i].chunk < segments[t][j].chunk

\* C12 witness: a token has two segments with different timestamps.
C12_Witness ==
    \E t \in Tokens :
        /\ Len(segments[t]) = 2
        /\ segments[t][1].time < segments[t][2].time

\* C13: chunk cadence.  Each time the worker has compared the time T with the
\* time of its last drain, and drained if a chunk was due, the number of
\* drains it has performed is floor(T / D), D being the chunk duration.
C13_DrainsAreFloor ==
    [][cad.pc = "poll"
         => cad'.drains = cad'.time \div TRANSCRIPTION_CHUNK_DURATION]_vars

\* C14: start followed by stop with zero frames delivered.  No WAV file is
\* created, and the status the stop stores is the "too short or no speech
\* detected" one.
C14_ZeroFramesNoSpeech ==
    fed = 0
    => /\ \A t \in Tokens : ~wav_file[t].exists
       /\ \A s \in Sessions :
             ui[s].status \in TerminalStatuses => ui[s].status = "too_short"

C16_WavRateIsFrameRate ==
    \A t \in Tokens : wav_file[t].exists => wav_file[t].rate = frame_rate

\* C17: every reader of a token's segment list holds a copy.  From the read
\* under the lock until the reader has used the list, the list it holds does
\* not change, whatever the transcription worker appends meanwhile: for a
\* snapshot reader, and for _stop_recording between its read and the
\* building of the final transcript.
C17_ReadersHoldCopies ==
    [][/\ (snap.pc = "holding" /\ snap'.pc = "holding")
          => snap'.held = snap.held
       /\ \A s \in Sessions :
             (ui[s].pc = "stop_finalize" /\ ui'[s].pc = "stop_finalize"
                /\ ui[s].has_segments)
             => segments'[ui[s].token] = segments[ui[s].token]
      ]_vars

\* C18: for one model, the estimate does not fall when the audio minutes and
\* the character count do not fall, and every estimate's total is its input
\* cost plus its output cost.
C18_CostMonotone ==
    /\ cost.pc \in {"second", "done"} =>
           cost.first.total = cost.first.input_cost + cost.first.output_cost
    /\ cost.pc = "done" =>
           /\ cost.second.total
                  = cost.second.input_cost + cost.second.output_cost
           /\ (cost.a1 <= cost.a2 /\ cost.c1 <= cost.c2)
                  => cost.first.total <= cost.second.total

\* Both calls returned for a model that charges for output, the second with
\* strictly more audio and more text, and its estimate is strictly higher.
C18_Witness ==
    /\ cost.pc = "done"
    /\ cost.model_name = "gpt-4o-mini-transcribe"
    /\ cost.a1 < cost.a2
    /\ cost.c1 < cost.c2
    /\ cost.first.output_cost < cost.second.output_cost
    /\ cost.first.total < cost.second.total

\* C19: once every push call has returned, each sample handed to push is
\* exactly once in a returned chunk or in the chunker's buffer.
C19_PushKeepsEverySample ==
    (\A p \in Pushers : chunker.th[p].pc = "idle") =>
        \A x \in 1..chunker.pushed :
            Occurrences(chunker.buffer, x)
                + OccurrencesInChunks(chunker.returned, x) = 1

\* C20: the stored session never has more registrants than its capacity.
C20_NeverExceedsCapacity ==
    /\ Len(registry.stored.registrants) <= Capacity
    /\ registry.stored.registered <= Capacity

\* The arrays of a buffer one after the other, as one array of samples.
RECURSIVE C21_Flat(_)
C21_Flat(arrays) ==
    IF arrays = <<>> THEN <<>> ELSE Head(arrays) \o C21_Flat(Tail(arrays))

\* C21: drain conservation.  A token's transcription buffer changes in three
\* ways only: the callback appends one array at its end; the worker's drain
\* empties it and the drained chunk is exactly the arrays it held, in arrival
\* order; the token's entry is created empty or removed.  The chunk a worker
\* holds changes only by a drain or by being dropped, so no array reaches two
\* chunks and none is lost between an append and the next drain.
C21_DrainConservation ==
    [][\A t \in Tokens :
          LET had == t \in DOMAIN transcription_buffers
              has == t \in DOMAIN transcription_buffers'
              b == Get(transcription_buffers, t, <<>>)
              b2 == Get(transcription_buffers', t, <<>>)
              drain == tw[t].pc = "drain" /\ tw'[t].pc = "vad"
          IN /\ drain
                => /\ b # <<>>
                   /\ b2 = <<>>
                   /\ tw'[t].chunk = C21_Flat(b)
             /\ (~drain /\ had /\ has /\ b2 # b)
                => /\ cb.pc = "push" /\ cb.token = t
                   /\ \E pcm \in Frames : b2 = Append(b, pcm)
             /\ (~had /\ has) => b2 = <<>>
             /\ (~drain /\ tw'[t].chunk # tw[t].chunk) => tw'[t].chunk = <<>>
      ]_vars

\* C21 witness: the worker holds a chunk made of the first array while the
\* array that arrived after the drain waits in the buffer.
C21_Witness ==
    \E t \in DOMAIN transcription_buffers :
        /\ t = active_token
        /\ tw[t].pc = "vad"
        /\ tw[t].chunk = <<0>>
        /\ transcription_buffers[t] = << <<1100, 1100>> >>

\* C22: no thread holds _recorder_lock while its next statement opens, writes
\* or closes the WAV file, writes the transcript file, calls the API, joins a
\* thread, sleeps, or does a blocking queue put or get.
C22_NoBlockingUnderLock ==
    \A th \in LockThreads :
        (lk.holder = th /\ lk.pc[th] # 0)
            => Statement(th).op \notin BlockingOps

\* C22 witness: the transcription worker holds the lock to append a segment
\* while the ingest worker is writing frames and the UI thread is joining.
C22_Witness ==
    /\ lk.holder = "tw"
    /\ Statement("tw").line = 1038
    /\ lk.pc["aw"] # 0 /\ Statement("aw").op = "wav_write"
    /\ lk.pc["ui"] # 0 /\ Statement("ui").op = "join"

\* C23 as stated: once its stop event is set, the transcription worker
\* starts no new buffer drain.
C23_NoDrainAfterStop ==
    [][\A t \in Tokens :
          transcription_stop[t] => ~(tw[t].pc = "drain" /\ tw'[t].pc = "vad")
      ]_vars

\* C23: the stop event is read at the loop test only.  A worker at its loop
\* test with the event set exits; it reaches a drain only from a loop test
\* that read the event unset, so after the event is set it finishes the cycle
\* it is in (the drain that test led to, its VAD test, API call and append)
\* and exits at the next loop test.  A set event stays set.
C23_ExitsAtNextLoopTest ==
    [][\A t \in Tokens :
          /\ (transcription_stop[t] /\ tw[t].pc = "loop" /\ tw'[t] # tw[t])
                => tw'[t].pc = "done"
          /\ (tw[t].pc # "drain" /\ tw'[t].pc = "drain")
                => (tw[t].pc = "loop" /\ ~transcription_stop[t])
          /\ (transcription_stop[t] /\ tw'[t].pc # tw[t].pc)
                => \/ tw[t].pc = "drain" /\ tw'[t].pc \in {"vad", "loop"}
                   \/ tw[t].pc = "vad" /\ tw'[t].pc \in {"api", "loop"}
                   \/ tw[t].pc = "api" /\ tw'[t].pc \in {"append", "loop", "except"}
                   \/ tw[t].pc = "except" /\ tw'[t].pc = "loop"
                   \/ tw[t].pc = "append" /\ tw'[t].pc = "loop"
                   \/ tw[t].pc = "loop" /\ tw'[t].pc = "done"
                   \/ tw[t].pc = "init" /\ tw'[t].pc \in {"loop", "done"}
          /\ transcription_stop[t] => transcription_stop'[t]
      ]_vars

\* C23 witness: the stop event was set while the worker was between its loop
\* test and the drain, with audio waiting in the buffer.
C23_Witness ==
    \E t \in DOMAIN transcription_buffers :
        /\ transcription_stop[t]
        /\ tw[t].pc = "drain"
        /\ transcription_buffers[t] # <<>>

\* C24: once the ingest stop event of a token is set its worker eventually
\* exits, whether or not the sentinel was enqueued.  The worker ends with
\* its writer closed, an open WAV file is closed only by the finally block of
\* its own worker, and a WAV file is created only by a worker that holds an
\* item it received from the queue.
C24_IngestWorkerExits ==
    /\ \A t \in Tokens : []<>(~(worker_stop[t] /\ IsAlive(aw[t])))
    /\ [][\A t \in Tokens :
             /\ (IsAlive(aw[t]) /\ ~IsAlive(aw'[t]) /\ aw[t].writer)
                   => (aw[t].pc = "close" /\ ~wav_file'[t].open)
             /\ (wav_file[t].open /\ ~wav_file'[t].open)
                   => (aw[t].pc = "close" /\ aw'[t].pc = "done")
             /\ (~wav_file[t].exists /\ wav_file'[t].exists)
                   => (aw[t].pc = "open" /\ aw[t].item # <<>>)
       ]_vars

\* C24 witness: the sentinel was refused by a full queue, the stop event is
\* set, and the worker is running with its writer open.
C24_Witness ==
    \E t \in Tokens :
        /\ worker_stop[t]
        /\ sentinel_offered[t]
        /\ queue[t] # <<>>
        /\ \A i \in 1..Len(queue[t]) : ~queue[t][i].none
        /\ IsAlive(aw[t])
        /\ aw[t].writer
        /\ wav_file[t].open

\* C25 as stated: a drain cycle whose chunk was voiced and whose API answer
\* has text appends exactly one segment, and no other step changes a segment
\* list.
C25_SegmentPerVoicedDrain ==
    [][\A t \in Tokens :
          /\ (tw[t].pc = "append" /\ tw'[t].pc # "append")
                => Len(segments'[t]) = Len(segments[t]) + 1
          /\ segments'[t] # segments[t] => tw[t].pc = "append"
      ]_vars

\* C25: a cycle reaches the append only through a non-empty drain, a voiced
\* chunk and an API answer that has text once stripped.  The append adds
\* exactly one segment, with the stripped text, if the token's segment list
\* is still registered, and nothing if _stop_recording has removed it; no
\* other step changes a segment list.  Segments never outnumber drains.
\* bytes_written becomes positive when the ingest worker counts its first
\* written item, which is not ordered with the transcription worker's steps.
C25_SegmentPerRegisteredDrain ==
    [][\A t \in Tokens :
          /\ (tw[t].pc = "append" /\ tw'[t].pc # "append")
                => IF t \in transcript_segments
                   THEN /\ Len(segments'[t]) = Len(segments[t]) + 1
                        /\ segments'[t][Len(segments'[t])].text = "hello"
                        /\ SubSeq(segments'[t], 1, Len(segments[t]))
                               = segments[t]
                   ELSE segments'[t] = segments[t]
          /\ segments'[t] # segments[t] => tw[t].pc = "append"
          /\ (tw[t].pc # "append" /\ tw'[t].pc = "append")
                => /\ tw[t].pc = "api"
                   /\ tw'[t].transcript = "hello"
          /\ (tw[t].pc # "api" /\ tw'[t].pc = "api")
                => /\ tw[t].pc = "vad"
                   /\ C9_Voiced(tw[t].chunk)
          /\ (tw[t].pc # "vad" /\ tw'[t].pc = "vad")
                => /\ tw[t].pc = "drain"
                   /\ tw'[t].drained = tw[t].drained + 1
          /\ Len(segments'[t]) <= tw'[t].drained
          /\ (aw[t].pc = "count" /\ aw'[t].pc # "count")
                => Get(bytes_written', t, 0) > 0
      ]_vars

\* C25 witness: after one drain of voiced audio and an answer with text, the
\* active token has exactly one segment and bytes_written is positive.
C25_Witness ==
    \E t \in DOMAIN bytes_written :
        /\ t = active_token
        /\ tw[t].drained = 1
        /\ Len(segments[t]) = 1
        /\ segments[t][1].text = "hello"
        /\ bytes_written[t] > 0

\* C26: whenever _active_token is a token t, the ingest queue, transcription
\* buffer, segment list, byte counter and both stop events of t are all
\* registered.
C26_ActiveTokenIsRegistered ==
    \A t \in Tokens :
        active_token = t
            => /\ t \in audio_queues
               /\ t \in DOMAIN transcription_buffers
               /\ t \in transcript_segments
               /\ t \in DOMAIN bytes_written
               /\ t \in worker_stop_events
               /\ t \in transcription_stop_events

\* C26 witness: a token is active with its entries registered while the stop
\* of an earlier token is about to remove that earlier token's entries.
C26_Witness ==
    \E s \in Sessions, t \in Tokens :
        /\ active_token = t
        /\ t \in audio_queues
        /\ ui[s].pc = "stop_cleanup"
        /\ ui[s].token # t
        /\ ui[s].token \in audio_queues

\* C30: a _stop_recording whose token is not the active token leaves
\* _active_token and _active_model as they are, and leaves the entries, the
\* queue, the segments and the workers of every other token unchanged.
C30_StopSparesOtherSession ==
    [][\A s \in Sessions :
          (ui[s].pc \in {"stop_clear", "stop_signal_worker", "stop_put",
                         "stop_signal_transcription", "stop_join",
                         "stop_finalize", "stop_cleanup"}
             /\ ui'[s] # ui[s])
            => /\ active_token # ui[s].token
                    => /\ active_token' = active_token
                       /\ active_model' = active_model
               /\ \A t \in Tokens \ {ui[s].token} :
                    /\ queue'[t] = queue[t]
                    /\ segments'[t] = segments[t]
                    /\ Get(transcription_buffers', t, <<>>)
                           = Get(transcription_buffers, t, <<>>)
                    /\ (t \in audio_queues') = (t \in audio_queues)
                    /\ worker_stop'[t] = worker_stop[t]
                    /\ transcription_stop'[t] = transcription_stop[t]
                    /\ aw'[t] = aw[t]
                    /\ tw'[t] = tw[t]
      ]_vars

\* C27: at most one writer is inside `with lock_file(path)` at a time, also
\* after save_json has replaced the file, and no update is lost: the count in
\* the file is at least the number of writers whose update has completed.
C27_LockFileExcludes ==
    /\ Cardinality(InCriticalSection) <= 1
    /\ fl.content[fl.path] >= Cardinality(Updated)

\* C28: on the microphone page a start issued while _current_token is set
\* does not replace it (the marker changes from a token only to None), and
\* the frames of a session that is recording go to that session's own token.
C28_OneTokenAtATime ==
    [][/\ (mic.current_token # None /\ mic'.current_token # mic.current_token)
            => mic'.current_token = None
       /\ \A s \in MicSessions :
            (mic.cb[s].pc = "idle" /\ mic'.cb[s].pc = "push")
                => mic'.cb[s].token = mic.ss[s].mic_capture_token
      ]_vars

\* C29: when the recorder worker leaves its loop, no frame is left in its
\* queue ahead of the stop sentinel: every such frame has been taken, written
\* and counted.
C29_FramesAheadOfSentinelWritten ==
    [][\A t \in MicTokens :
          (mic.worker[t].pc # "close" /\ mic'.worker[t].pc = "close")
            => ~ \E i, j \in 1..Len(mic'.queue[t]) :
                    /\ i < j
                    /\ ~mic'.queue[t][i].none
                    /\ mic'.queue[t][j].none
      ]_vars

====
